---- MODULE Spec2Model ----
(***************************************************************************)
(* A model of the chat-history browser: the Express server of              *)
(* src/src/server.ts reading the IDE's workspace storage and global        *)
(* database, and the requests made against it.                             *)
(*                                                                         *)
(* The external store (workspace directories, per-workspace databases,     *)
(* the global database) is state; every request handler is one action      *)
(* that reads the store and leaves its response in `resp`.                 *)
(***************************************************************************)
EXTENDS Integers, Sequences, FiniteSets, TLC

(***************************************************************************)
(* Time.  Timestamps that come from JSON numbers or from stat() need not   *)
(* be whole milliseconds, so an instant is an integer number of ticks,     *)
(* Sub ticks to the millisecond.  A day is scaled down to MsPerDay         *)
(* milliseconds (TLC's integers are 32 bits wide; 86400000 * 365 is not).  *)
(***************************************************************************)
Sub == 2
MsPerDay == 2
TzMs == 1

\* new Date(x).getTime(): TimeClip truncates a non-negative number to whole ms
MsOf(t) == t \div Sub

\* new Date(x).toLocaleDateString('en-CA'): the local calendar day of x,
\* as the number of the day (YYYY-MM-DD strings order and compare as it does)
toLocaleDateString(t) == (MsOf(t) + TzMs) \div MsPerDay

\* new Date(D + 'T00:00:00').getTime(), in ticks
startOfDay(d) == (d * MsPerDay - TzMs) * Sub

\* new Date(D + 'T23:59:59.999').getTime(), in ticks
endOfDay(d) == (d * MsPerDay - TzMs + MsPerDay - 1) * Sub

(***************************************************************************)
(* Text: a string is a sequence of characters.                             *)
(***************************************************************************)
toLowerCaseChar(c) ==
    CASE c = "A" -> "a"
      [] c = "B" -> "b"
      [] OTHER -> c

toLowerCase(s) == [i \in 1..Len(s) |-> toLowerCaseChar(s[i])]

\* String.prototype.includes
includes(hay, needle) ==
    \E i \in 0..(Len(hay) - Len(needle)) :
        \A j \in 1..Len(needle) : hay[i + j] = needle[j]

\* String.prototype.trim() === '' for the characters of the model
isBlank(s) == \A i \in 1..Len(s) : s[i] = " "

(***************************************************************************)
(* Array.prototype.sort as Node's engine runs it on a short array: the     *)
(* first run is counted (and reversed when strictly descending), the rest  *)
(* is put in place by binary insertion.  cmp[i, j] is what the comparator  *)
(* returns for the elements at positions i and j of the array as given (a  *)
(* NaN result counts as 0); the sort moves positions.                      *)
(***************************************************************************)
Reverse(s) == [i \in 1..Len(s) |-> s[Len(s) + 1 - i]]

RECURSIVE RunEnd(_, _, _, _)
RunEnd(p, cmp, desc, idx) ==
    IF idx > Len(p) THEN idx - 1
    ELSE LET order == cmp[p[idx], p[idx - 1]]
         IN  IF (desc /\ order >= 0) \/ (~desc /\ order < 0)
             THEN idx - 1
             ELSE RunEnd(p, cmp, desc, idx + 1)

RECURSIVE BinarySearch(_, _, _, _, _)
BinarySearch(p, cmp, pivot, left, right) ==
    IF left >= right THEN left
    ELSE LET mid == left + ((right - left) \div 2)
         IN  IF cmp[pivot, p[mid]] < 0
             THEN BinarySearch(p, cmp, pivot, left, mid)
             ELSE BinarySearch(p, cmp, pivot, mid + 1, right)

RECURSIVE BinaryInsertionSort(_, _, _)
BinaryInsertionSort(p, cmp, start) ==
    IF start > Len(p) THEN p
    ELSE LET pivot == p[start]
             left  == BinarySearch(p, cmp, pivot, 1, start)
             moved == [i \in 1..Len(p) |->
                          IF i < left \/ i > start THEN p[i]
                          ELSE IF i = left THEN pivot
                          ELSE p[i - 1]]
         IN  BinaryInsertionSort(moved, cmp, start + 1)

ArraySort(a, cmp) ==
    IF Len(a) < 2 THEN a
    ELSE LET p      == [i \in 1..Len(a) |-> i]
             desc   == cmp[2, 1] < 0
             run    == RunEnd(p, cmp, desc, 3)
             made   == IF desc
                       THEN Reverse(SubSeq(p, 1, run)) \o SubSeq(p, run + 1, Len(p))
                       ELSE p
             sorted == BinaryInsertionSort(made, cmp, run + 1)
         IN  [i \in 1..Len(a) |-> a[sorted[i]]]

(***************************************************************************)
(* The external store, owned and written by the IDE, read by the server.   *)
(*   root     the workspace-storage path: "missing", a directory "dir",    *)
(*            or something readdir fails on, "file"                        *)
(*   dirs     the entries of the workspace-storage directory; the database *)
(*            of an entry is "none" (no state.vscdb), "locked" (it cannot  *)
(*            be opened), "corrupt" (it opens and no statement can be      *)
(*            prepared on it) or "ok"                                      *)
(*   globalDb the global database file                                     *)
(*   now      Date.now() in whole milliseconds                             *)
(* the last request served with the response it got, and                   *)
(*   handles  the number of database handles the server process has open   *)
(*                                                                         *)
(* The browser client (src/frontend) keeps, in the memory of one page:     *)
(*   composerList the composer list on screen (useComposers' composers)    *)
(*   selections  the selection Map, as its entries in insertion order      *)
(*   showModal   whether the summary dialog is open                        *)
(*   summaryData the conversations with bubbles the last fetch delivered   *)
(*   runs        the fetchAllBubbles calls still running                   *)
(*   clipboard   what the panel's copy button last wrote, with the number  *)
(*               its alert reported                                        *)
(*   dateList    the date list on screen (useDates' dates)                 *)
(*   selectedDate the date chosen in the date list, none at first          *)
(*   fetches     the requests of useDates and useComposers still awaiting  *)
(*               their response                                            *)
(*   viewingComposer the conversation open in the detail pane, or null     *)
(*   viewedBubbles the bubbles useBubbles holds for the detail pane        *)
(*   bubbleFetches the composer ids whose bubbles useBubbles has requested *)
(*               and not yet received                                      *)
(* The page is three parts that share no state: the date list with the     *)
(* composer list, the detail pane, and the selection with its summary.     *)
(* Each specification of the page follows the parts its properties are     *)
(* about and leaves the others as the page load left them.                 *)
(***************************************************************************)
VARIABLES root, dirs, globalDb, now, req, resp, handles,
          composerList, selections, showModal, summaryData, runs, clipboard,
          dateList, selectedDate, fetches, viewingComposer, viewedBubbles,
          bubbleFetches

vars == <<root, dirs, globalDb, now, req, resp, handles,
          composerList, selections, showModal, summaryData, runs, clipboard,
          dateList, selectedDate, fetches, viewingComposer, viewedBubbles,
          bubbleFetches>>
store == <<root, dirs, globalDb, now>>
nav == <<dateList, selectedDate, fetches>>
viewer == <<viewingComposer, viewedBubbles, bubbleFetches>>
client == <<composerList, selections, showModal, summaryData, runs, clipboard, nav, viewer>>

WsIds == {"w1", "w2"}

\* the order in which readdirSync lists the entries
DirOrder == <<"w1", "w2">>

Null == <<>>
Some(x) == <<x>>

(***************************************************************************)
(* getWorkspaceFolder: workspace.json first, then the database's folder    *)
(* row; every failure is null.                                             *)
(***************************************************************************)
getWorkspaceFolder(id, d) ==
    CASE d.wsJson = "uri"     -> Some("/home/" \o id)
      [] d.wsJson = "corrupt" -> Null
      [] d.wsJson \in {"missing", "nofolder"} /\ d.db = "ok" /\ d.folderRow = "string"
                              -> Some("/db/" \o id)
      [] d.wsJson \in {"missing", "nofolder"} /\ d.db = "ok" /\ d.folderRow = "uri"
                              -> Some("/dburi/" \o id)
      [] d.wsJson \in {"missing", "nofolder"} /\ d.db = "ok" /\ d.folderRow = "raw"
                              -> Some("raw:" \o id)
      [] OTHER                -> Null

(***************************************************************************)
(* extractPrompts: the value of 'aiService.prompts' when it decodes to an  *)
(* array, as it is; anything else, and any failure, is the empty array.    *)
(***************************************************************************)
extractPrompts(d) ==
    IF d.db = "ok" /\ d.prompts.json = "array" THEN d.prompts.items ELSE <<>>

(***************************************************************************)
(* extractComposers: allComposers of 'composer.composerData', filtered     *)
(* and normalised.                                                         *)
(***************************************************************************)
retainedAnyTime(c) == c.composerId # ""

\* the filter callback of extractComposers
retained(c) ==
    /\ c.composerId # ""
    /\ c.lastUpdatedAt.type = "num"
    /\ c.lastUpdatedAt.v > 0

\* the map callback of extractComposers
normalised(c) ==
    LET created == IF c.createdAt # 0 THEN c.createdAt ELSE c.lastUpdatedAt.v
    IN  [composerId    |-> c.composerId,
         name          |-> IF c.name # "" THEN c.name
                           ELSE "Chat " \o ToString(MsOf(created)),
         createdAt     |-> created,
         lastUpdatedAt |-> c.lastUpdatedAt.v,
         mode          |-> IF c.unifiedMode # "" THEN c.unifiedMode ELSE "chat"]

extractComposers(d) ==
    IF d.db # "ok" \/ d.composerData.json # "array" THEN <<>>
    ELSE LET raw == d.composerData.items
         IN  \* reading a property of a null element throws inside the try
             IF \E i \in 1..Len(raw) : raw[i].kind = "null" THEN <<>>
             ELSE LET kept == SelectSeq(raw, retained)
                  IN  [i \in 1..Len(kept) |-> normalised(kept[i])]

(***************************************************************************)
(* listWorkspaces(daysBack): [threw, list].  threw is an exception that    *)
(* leaves the function (readdirSync on a root that is no directory).       *)
(***************************************************************************)
byModifiedAsc(a, b) == a.modifiedTimestamp - b.modifiedTimestamp

\* workspaces.sort((a, b) => b.modifiedTimestamp - a.modifiedTimestamp)
byModifiedDesc(a, b) == b.modifiedTimestamp - a.modifiedTimestamp

acceptedAlways(prompts, composers) == TRUE

\* if (prompts.length > 0 || composers.length > 0)
accepted(prompts, composers) == Len(prompts) > 0 \/ Len(composers) > 0

RECURSIVE scanDirs(_, _)
scanDirs(order, cutoffDate) ==
    IF order = <<>> THEN <<>>
    ELSE LET dir       == Head(order)
             d         == dirs[dir]
             rest      == scanDirs(Tail(order), cutoffDate)
             prompts   == extractPrompts(d)
             composers == extractComposers(d)
         IN  IF d.kind # "dir" \/ d.db = "none" THEN rest
             ELSE IF d.mtime < cutoffDate THEN rest
             ELSE IF accepted(prompts, composers)
                  THEN <<[id                |-> dir,
                          path              |-> dir \o "/state.vscdb",
                          folder            |-> getWorkspaceFolder(dir, d),
                          modified          |-> MsOf(d.mtime),
                          modifiedTimestamp |-> d.mtime,
                          promptCount       |-> Len(prompts),
                          prompts           |-> prompts,
                          composers         |-> composers]>> \o rest
                  ELSE rest

listWorkspacesNoCatch(daysBack) ==
    LET cutoffDate == (now - daysBack * MsPerDay) * Sub
        workspaces == scanDirs(DirOrder, cutoffDate)
    IN  [threw |-> \/ root = "file"
                   \/ /\ root = "dir"
                      /\ \E w \in WsIds :
                            /\ dirs[w].kind = "dir" /\ dirs[w].db # "none"
                            /\ dirs[w].mtime >= cutoffDate
                            /\ \/ dirs[w].db # "ok"
                               \/ dirs[w].prompts.json = "bad"
                               \/ dirs[w].composerData.json = "bad",
         list  |-> IF root = "dir"
                   THEN ArraySort(workspaces,
                                  [i, j \in 1..Len(workspaces) |->
                                      byModifiedDesc(workspaces[i], workspaces[j])])
                   ELSE <<>>]

listWorkspaces(daysBack) ==
    LET cutoffDate == (now - daysBack * MsPerDay) * Sub
    IN  CASE root = "missing" -> [threw |-> FALSE, list |-> <<>>]
          [] root = "file"    -> [threw |-> TRUE, list |-> <<>>]
          [] OTHER            ->
               [threw |-> FALSE,
                list  |-> LET workspaces == scanDirs(DirOrder, cutoffDate)
                          IN  ArraySort(workspaces,
                                        [i, j \in 1..Len(workspaces) |->
                                            byModifiedDesc(workspaces[i], workspaces[j])])]

(***************************************************************************)
(* Database handles.  Each reader runs new Database(...), prepare(...)     *)
(* and db.close() in that order inside its try: when the open throws there *)
(* is no handle, when the query throws close() is not reached.             *)
(***************************************************************************)
\* the handles one open-query-close sequence leaves open
unclosed(db) == IF db = "corrupt" THEN 1 ELSE 0

\* getWorkspaceFolder opens the database only when workspace.json gave no
\* folder
folderUnclosed(d) ==
    IF d.wsJson \in {"missing", "nofolder"} THEN unclosed(d.db) ELSE 0

RECURSIVE scanUnclosed(_, _)
scanUnclosed(order, cutoffDate) ==
    IF order = <<>> THEN 0
    ELSE LET d    == dirs[Head(order)]
             rest == scanUnclosed(Tail(order), cutoffDate)
         IN  IF d.kind # "dir" \/ d.db = "none" THEN rest
             ELSE IF d.mtime < cutoffDate THEN rest
             ELSE folderUnclosed(d) + unclosed(d.db) + unclosed(d.db) + rest

\* the handles a call of listWorkspaces(daysBack) leaves open
listUnclosed(daysBack) ==
    IF root = "dir" THEN scanUnclosed(DirOrder, (now - daysBack * MsPerDay) * Sub) ELSE 0

\* the handles the bubbles handler leaves open
bubblesUnclosed == IF globalDb.file = "missing" THEN 0 ELSE unclosed(globalDb.file)

(***************************************************************************)
(* What a request leaves of the files it opens.                            *)
(***************************************************************************)
afterOpenReadWrite(d) == [d EXCEPT !.mtime = now * Sub]

\* a workspace database after new Database(path, { readonly: true,
\* fileMustExist: true }), its SELECT and db.close(): as it was
afterOpen(d) == d

\* the workspaces whose database a call of listWorkspaces(daysBack) opens
openedBy(daysBack) ==
    IF root # "dir" THEN {}
    ELSE {w \in WsIds : /\ dirs[w].kind = "dir"
                        /\ dirs[w].db \in {"ok", "corrupt"}
                        /\ dirs[w].mtime >= (now - daysBack * MsPerDay) * Sub}

\* the entries of the storage directory after listWorkspaces(daysBack)
dirsAfter(daysBack) ==
    [w \in WsIds |-> IF w \in openedBy(daysBack) THEN afterOpen(dirs[w]) ELSE dirs[w]]

\* the global database after the bubbles handler: opened read-only when it
\* exists, never created
globalDbAfter == globalDb

(***************************************************************************)
(* Requests and responses.                                                 *)
(***************************************************************************)
NoReq == [route |-> "none"]
NoResp == [status |-> 0, type |-> "none", body |-> <<>>]

Json(body) == [status |-> 200, type |-> "json", body |-> body]

\* an exception that leaves a handler: Express's default error handler
\* answers 500 with an HTML page
Uncaught == [status |-> 500, type |-> "html", body |-> <<>>]

NotFound == [status |-> 404, type |-> "json",
             body |-> [error |-> "Workspace not found"]]

DefaultDays == 30
DetailDays == 365
SearchLimit == 2

(***************************************************************************)
(* GET /api/workspaces                                                     *)
(***************************************************************************)
parseDaysWeek(days) == IF days.kind = "int" /\ days.v # 0 THEN days.v ELSE 7

\* parseInt(req.query.days) || 30
parseDays(days) == IF days.kind = "int" /\ days.v # 0 THEN days.v ELSE DefaultDays

summary(ws) ==
    [id                |-> ws.id,
     folder            |-> ws.folder,
     modified          |-> ws.modified,
     modifiedTimestamp |-> ws.modifiedTimestamp,
     promptCount       |-> ws.promptCount,
     composerCount     |-> Len(ws.composers)]

workspacesResponse(days) ==
    LET workspaces == listWorkspaces(parseDays(days))
    IN  IF workspaces.threw THEN Uncaught
        ELSE Json([i \in 1..Len(workspaces.list) |-> summary(workspaces.list[i])])

(***************************************************************************)
(* GET /api/workspaces/:id                                                 *)
(***************************************************************************)
\* the Map / object keyed by date, as the sequence of its entries in
\* insertion order
RECURSIVE indexOfDate(_, _)
indexOfDate(m, date) ==
    IF m = <<>> THEN 0
    ELSE IF m[Len(m)].date = date THEN Len(m)
    ELSE indexOfDate(SubSeq(m, 1, Len(m) - 1), date)

RECURSIVE groupComposersByDateOverwriting(_)
groupComposersByDateOverwriting(composers) ==
    IF composers = <<>> THEN <<>>
    ELSE LET n        == Len(composers)
             grouped  == groupComposersByDateOverwriting(SubSeq(composers, 1, n - 1))
             composer == composers[n]
             date     == toLocaleDateString(composer.lastUpdatedAt)
             at       == indexOfDate(grouped, date)
         IN  IF at = 0
             THEN Append(grouped, [date |-> date, items |-> <<composer>>])
             ELSE [grouped EXCEPT ![at].items = <<composer>>]

RECURSIVE groupComposersByDate(_)
groupComposersByDate(composers) ==
    IF composers = <<>> THEN <<>>
    ELSE LET n        == Len(composers)
             grouped  == groupComposersByDate(SubSeq(composers, 1, n - 1))
             composer == composers[n]
             date     == toLocaleDateString(composer.lastUpdatedAt)
             at       == indexOfDate(grouped, date)
         IN  IF at = 0
             THEN Append(grouped, [date |-> date, items |-> <<composer>>])
             ELSE [grouped EXCEPT ![at].items = Append(@, composer)]

onFilterDateByCalendar(filterDate, c) ==
    filterDate.kind = "day" /\ toLocaleDateString(c.lastUpdatedAt) = filterDate.day

\* the filter of the detail endpoint: NaN bounds (an unparsable date)
\* compare false with everything
onFilterDate(filterDate, c) ==
    /\ filterDate.kind = "day"
    /\ c.lastUpdatedAt >= startOfDay(filterDate.day)
    /\ c.lastUpdatedAt <= endOfDay(filterDate.day)

detailWorkspacesDefaultWindow == listWorkspaces(DefaultDays)

\* const workspaces = listWorkspaces(365)
detailWorkspaces == listWorkspaces(DetailDays)

workspaceResponse(id, filterDate) ==
    LET workspaces == detailWorkspaces
        found      == SelectSeq(workspaces.list, LAMBDA ws : ws.id = id)
    IN  IF workspaces.threw THEN Uncaught
        ELSE IF found = <<>> THEN NotFound
        ELSE LET workspace == found[1]
                 filteredComposers ==
                     IF filterDate.kind = "none" THEN workspace.composers
                     ELSE SelectSeq(workspace.composers,
                                    LAMBDA c : onFilterDate(filterDate, c))
             IN  Json([id                |-> workspace.id,
                       path              |-> workspace.path,
                       folder            |-> workspace.folder,
                       modified          |-> workspace.modified,
                       modifiedTimestamp |-> workspace.modifiedTimestamp,
                       promptCount       |-> workspace.promptCount,
                       prompts           |-> workspace.prompts,
                       composers         |-> filteredComposers,
                       composersByDate   |-> groupComposersByDate(workspace.composers)])

(***************************************************************************)
(* GET /api/dates                                                          *)
(***************************************************************************)
emptyEntry(date) ==
    [date |-> date, promptCount |-> 0, workspaces |-> <<>>, composerCount |-> 0]

\* if (!dates.has(date)) dates.set(date, {...})
ensureDate(dates, date) ==
    IF indexOfDate(dates, date) = 0 THEN Append(dates, emptyEntry(date)) ELSE dates

\* Set.prototype.add on a set kept in insertion order
setAdd(set, x) == IF \E i \in 1..Len(set) : set[i] = x THEN set ELSE Append(set, x)

RECURSIVE tallyComposers(_, _, _)
tallyComposers(dates, wsId, composers) ==
    IF composers = <<>> THEN dates
    ELSE LET composerDate == toLocaleDateString(Head(composers).lastUpdatedAt)
             has          == ensureDate(dates, composerDate)
             at           == indexOfDate(has, composerDate)
             next         == [has EXCEPT ![at].workspaces = setAdd(@, wsId),
                                         ![at].composerCount = @ + 1]
         IN  tallyComposers(next, wsId, Tail(composers))

tallyWorkspaceByModified(dates, ws) ==
    LET wsDate == toLocaleDateString(ws.modifiedTimestamp)
        has    == ensureDate(dates, wsDate)
        at     == indexOfDate(has, wsDate)
    IN  [has EXCEPT ![at].promptCount = @ + ws.promptCount,
                    ![at].composerCount = @ + Len(ws.composers),
                    ![at].workspaces = setAdd(@, ws.id)]

\* the body of the loop over workspaces
tallyWorkspace(dates, ws) ==
    LET wsDate  == toLocaleDateString(ws.modifiedTimestamp)
        has     == ensureDate(dates, wsDate)
        counted == tallyComposers(has, ws.id, ws.composers)
        at      == indexOfDate(counted, wsDate)
    IN  [counted EXCEPT ![at].promptCount = @ + ws.promptCount,
                        ![at].workspaces = setAdd(@, ws.id)]

RECURSIVE tallyWorkspaces(_, _)
tallyWorkspaces(dates, workspaces) ==
    IF workspaces = <<>> THEN dates
    ELSE tallyWorkspaces(tallyWorkspace(dates, Head(workspaces)), Tail(workspaces))

hasAnything(data) == TRUE

\* only include dates with actual conversations
hasConversations(data) == data.composerCount > 0

byDateDesc(a, b) == b.date - a.date

datesResponse ==
    LET workspaces == listWorkspaces(DefaultDays)
        dates      == tallyWorkspaces(<<>>, workspaces.list)
        kept       == SelectSeq(dates, hasConversations)
        result     == [i \in 1..Len(kept) |->
                          [date          |-> kept[i].date,
                           promptCount   |-> kept[i].promptCount,
                           composerCount |-> kept[i].composerCount,
                           workspaceIds  |-> kept[i].workspaces]]
    IN  IF workspaces.threw THEN Uncaught
        ELSE Json(ArraySort(result, [i, j \in 1..Len(result) |->
                                        byDateDesc(result[i], result[j])]))

(***************************************************************************)
(* GET /api/composers                                                      *)
(***************************************************************************)
passesDateByInterval(filterDate, composer) ==
    \/ filterDate.kind = "none"
    \/ /\ filterDate.kind = "day"
       /\ composer.lastUpdatedAt >= startOfDay(filterDate.day)
       /\ composer.lastUpdatedAt <= endOfDay(filterDate.day)

\* if (filterDate && composerDate !== filterDate) continue
passesDate(filterDate, composer) ==
    \/ filterDate.kind = "none"
    \/ /\ filterDate.kind = "day"
       /\ toLocaleDateString(composer.lastUpdatedAt) = filterDate.day

withWorkspace(ws, composer) ==
    [composerId      |-> composer.composerId,
     name            |-> composer.name,
     createdAt       |-> composer.createdAt,
     lastUpdatedAt   |-> composer.lastUpdatedAt,
     mode            |-> composer.mode,
     workspaceId     |-> ws.id,
     workspaceFolder |-> ws.folder]

RECURSIVE flattenComposers(_, _)
flattenComposers(workspaces, filterDate) ==
    IF workspaces = <<>> THEN <<>>
    ELSE LET ws   == Head(workspaces)
             kept == SelectSeq(ws.composers, LAMBDA c : passesDate(filterDate, c))
         IN  [i \in 1..Len(kept) |-> withWorkspace(ws, kept[i])]
             \o flattenComposers(Tail(workspaces), filterDate)

byLastUpdatedDesc(a, b) == b.lastUpdatedAt - a.lastUpdatedAt

composersResponse(filterDate) ==
    LET workspaces   == listWorkspaces(DefaultDays)
        allComposers == flattenComposers(workspaces.list, filterDate)
    IN  IF workspaces.threw THEN Uncaught
        ELSE Json(ArraySort(allComposers,
                            [i, j \in 1..Len(allComposers) |->
                                byLastUpdatedDesc(allComposers[i], allComposers[j])]))

(***************************************************************************)
(* GET /api/composers/:composerId/bubbles                                  *)
(***************************************************************************)
KeyPrefix == <<"b", "u", "b", "b", "l", "e", "I", "d", ":">>

\* SQLite's LIKE: % matches any run of characters, _ any one character,
\* letters match without regard to case
RECURSIVE like(_, _)
like(pattern, str) ==
    IF pattern = <<>> THEN str = <<>>
    ELSE IF Head(pattern) = "%"
         THEN like(Tail(pattern), str) \/ (str # <<>> /\ like(pattern, Tail(str)))
    ELSE /\ str # <<>>
         /\ \/ Head(pattern) = "_"
            \/ toLowerCaseChar(Head(pattern)) = toLowerCaseChar(Head(str))
         /\ like(Tail(pattern), Tail(str))

\* String.prototype.split(':')
RECURSIVE split(_)
split(str) ==
    IF \A i \in 1..Len(str) : str[i] # ":" THEN <<str>>
    ELSE LET at == CHOOSE i \in 1..Len(str) :
                      str[i] = ":" /\ \A j \in 1..(i - 1) : str[j] # ":"
         IN  <<SubSeq(str, 1, at - 1)>> \o split(SubSeq(str, at + 1, Len(str)))

\* the rows SELECT ... WHERE key LIKE ? returns, in storage order
selectRows(composerId) ==
    SelectSeq(globalDb.rows,
              LAMBDA row : like(KeyPrefix \o composerId \o <<":", "%">>, row.key))

\* JSON.parse succeeded and data.text is truthy
hasText(row) == row.value.json = "obj" /\ row.value.text # <<>>

toBubble(row) ==
    [bubbleId  |-> split(row.key)[3],
     type      |-> row.value.type,
     text      |-> row.value.text,
     createdAt |-> row.value.createdAt]

byCreatedAtDescending(a, b) ==
    IF a.createdAt.kind = "time" /\ b.createdAt.kind = "time"
    THEN b.createdAt.ms - a.createdAt.ms
    ELSE 0

\* the comparator of bubbles.sort
byCreatedAt(a, b) ==
    IF a.createdAt.kind = "time" /\ b.createdAt.kind = "time"
    THEN a.createdAt.ms - b.createdAt.ms
    ELSE 0

readBubblesAborting(composerId) ==
    LET rows    == selectRows(composerId)
        kept    == SelectSeq(rows, hasText)
        bubbles == [i \in 1..Len(kept) |-> toBubble(kept[i])]
    IN  IF \E i \in 1..Len(rows) : rows[i].value.json # "obj" THEN <<>>
        ELSE ArraySort(bubbles, [i, j \in 1..Len(bubbles) |->
                                    byCreatedAt(bubbles[i], bubbles[j])])

readBubbles(composerId) ==
    LET kept    == SelectSeq(selectRows(composerId), hasText)
        bubbles == [i \in 1..Len(kept) |-> toBubble(kept[i])]
    IN  ArraySort(bubbles, [i, j \in 1..Len(bubbles) |->
                               byCreatedAt(bubbles[i], bubbles[j])])

bubblesResponseNoCatch(composerId) ==
    CASE globalDb.file = "missing" -> Json(<<>>)
      [] globalDb.file = "ok"      -> Json(readBubbles(composerId))
      [] OTHER                     -> Uncaught

\* the file is "missing", cannot be opened ("locked"), opens but cannot be
\* queried ("corrupt"), or is "ok"; what the try block throws the catch
\* answers with []
bubblesResponse(composerId) ==
    CASE globalDb.file = "missing" -> Json(<<>>)
      [] globalDb.file = "ok"      -> Json(readBubbles(composerId))
      [] OTHER                     -> Json(<<>>)

(***************************************************************************)
(* GET /api/search                                                         *)
(***************************************************************************)
\* (req.query.q || '').toLowerCase()
queryOf(q) == IF q.present THEN toLowerCase(q.s) ELSE <<>>

\* prompt.text?.toLowerCase() throws on a null prompt and on a text that
\* is no string
promptThrows(prompt) == prompt.kind = "null" \/ prompt.text.type = "other"

promptMatches(prompt, query) ==
    /\ prompt.kind = "obj"
    /\ prompt.text.type = "str"
    /\ includes(toLowerCase(prompt.text.s), query)

RECURSIVE searchWorkspaces(_, _)
searchWorkspaces(workspaces, query) ==
    IF workspaces = <<>> THEN <<>>
    ELSE LET ws   == Head(workspaces)
             hits == SelectSeq(ws.prompts, LAMBDA p : promptMatches(p, query))
         IN  [i \in 1..Len(hits) |->
                 [workspace |-> ws.id, folder |-> ws.folder, prompt |-> hits[i]]]
             \o searchWorkspaces(Tail(workspaces), query)

\* results.slice(0, 100)
slice(results) == SubSeq(results, 1, IF Len(results) < SearchLimit
                                     THEN Len(results) ELSE SearchLimit)

searchResponse(q) ==
    LET query      == queryOf(q)
        workspaces == listWorkspaces(DefaultDays)
    IN  IF query = <<>> THEN Json(<<>>)
        ELSE IF workspaces.threw THEN Uncaught
        ELSE IF \E i \in 1..Len(workspaces.list) :
                   \E j \in 1..Len(workspaces.list[i].prompts) :
                       promptThrows(workspaces.list[i].prompts[j])
        THEN Uncaught
        ELSE Json(slice(searchWorkspaces(workspaces.list, query)))

\* the empty query answers before anything is opened
searchUnclosed(q) == IF queryOf(q) = <<>> THEN 0 ELSE listUnclosed(DefaultDays)

(***************************************************************************)
(* The client.                                                             *)
(***************************************************************************)
\* MODE_LABELS[mode] || { label: 'Chat', color: 'chat' }
getModeInfo(mode) ==
    CASE mode = "agent" -> [label |-> "Agent", color |-> "agent"]
      [] mode = "chat"  -> [label |-> "Chat", color |-> "chat"]
      [] mode = "edit"  -> [label |-> "Edit", color |-> "terminal"]
      [] OTHER          -> [label |-> "Chat", color |-> "chat"]

\* folder.split('/').pop() || folder, on the paths getWorkspaceFolder yields
lastSegment(path) ==
    IF \E id \in WsIds : path \in {"/home/" \o id, "/db/" \o id, "/dburi/" \o id}
    THEN CHOOSE id \in WsIds : path \in {"/home/" \o id, "/db/" \o id, "/dburi/" \o id}
    ELSE path

\* ids are shorter than the 12 characters substring(0, 12) keeps
getWorkspaceName(folder, id) ==
    IF folder # Null THEN lastSegment(folder[1]) ELSE id \o "..."

\* the label ComposerList hands to onToggle
workspaceNameOf(composer) ==
    IF composer.workspaceFolder # Null
    THEN getWorkspaceName(composer.workspaceFolder, composer.workspaceId)
    ELSE "Unknown workspace"

\* the characters of a composer id, as `/api/composers/${composerId}/bubbles`
\* carries them to req.params.composerId
chars(id) ==
    CASE id = "a" -> <<"a">>
      [] id = "A" -> <<"A">>
      [] id = "b" -> <<"b">>
      [] OTHER    -> <<id>>

\* Map.prototype.has / delete on the entries in insertion order
has(map, key) == \E i \in 1..Len(map) : map[i].key = key
delete(map, key) == SelectSeq(map, LAMBDA entry : entry.key # key)

toggleSelectionAlwaysSetting(prev, composer, workspaceName) ==
    LET key == composer.composerId
    IN  Append(delete(prev, key), [key |-> key, composer |-> composer,
                                   workspaceName |-> workspaceName])

\* the updater of toggleSelection
toggleSelection(prev, composer, workspaceName) ==
    LET key == composer.composerId
    IN  IF has(prev, key) THEN delete(prev, key)
        ELSE Append(prev, [key |-> key, composer |-> composer,
                           workspaceName |-> workspaceName])

\* new Date(bubble.createdAt).toLocaleDateString('en-CA')
bubbleDate(bubble) == (bubble.createdAt.ms + TzMs) \div MsPerDay

filterBubblesByDateKeepingUndated(bubbles, filter) ==
    LET today      == toLocaleDateString(now * Sub)
        yesterday  == toLocaleDateString((now - MsPerDay) * Sub)
        targetDate == IF filter = "today" THEN today ELSE yesterday
    IN  IF filter \in {"today", "yesterday"}
        THEN SelectSeq(bubbles, LAMBDA bubble :
                 bubble.createdAt.kind = "none" \/ bubbleDate(bubble) = targetDate)
        ELSE bubbles

\* filterBubblesByDate, as the panel calls it (it passes no customDate)
filterBubblesByDate(bubbles, filter) ==
    LET today      == toLocaleDateString(now * Sub)
        yesterday  == toLocaleDateString((now - MsPerDay) * Sub)
        targetDate == IF filter = "today" THEN today ELSE yesterday
    IN  IF filter \in {"today", "yesterday"}
        THEN SelectSeq(bubbles, LAMBDA bubble :
                 bubble.createdAt.kind = "time" /\ bubbleDate(bubble) = targetDate)
        ELSE bubbles

\* formatDateTime: month, day, hour and minute of the local time
formatDateTime(timestamp) == MsOf(timestamp) + TzMs

\* the markdown text, as the sequence of its lines
Line(line, s, n, t) == [line |-> line, s |-> s, n |-> n, t |-> t]

RECURSIVE concat(_)
concat(seqs) == IF seqs = <<>> THEN <<>> ELSE Head(seqs) \o concat(Tail(seqs))

RECURSIVE indexOfWorkspace(_, _)
indexOfWorkspace(m, workspace) ==
    IF m = <<>> THEN 0
    ELSE IF m[Len(m)].workspace = workspace THEN Len(m)
    ELSE indexOfWorkspace(SubSeq(m, 1, Len(m) - 1), workspace)

\* filteredConversations.forEach(...) filling the Map grouped
RECURSIVE groupByWorkspace(_)
groupByWorkspace(conversations) ==
    IF conversations = <<>> THEN <<>>
    ELSE LET n         == Len(conversations)
             grouped   == groupByWorkspace(SubSeq(conversations, 1, n - 1))
             conv      == conversations[n]
             workspace == conv.composer.workspaceName
             at        == indexOfWorkspace(grouped, workspace)
         IN  IF at = 0
             THEN Append(grouped, [workspace |-> workspace, items |-> <<conv>>])
             ELSE [grouped EXCEPT ![at].items = Append(@, conv)]

\* the two lines of one bubble
bubbleLines(bubble) ==
    <<Line("role", IF bubble.type = 1 THEN "User" ELSE "AI", 0, <<>>),
      Line("text", "", 0, bubble.text)>>

itemLinesFirstBubbleOnly(item) ==
    <<Line("h3", item.composer.composer.name, 0, <<>>),
      Line("mode", getModeInfo(item.composer.composer.mode).label,
           formatDateTime(item.composer.composer.lastUpdatedAt), <<>>)>>
    \o (IF Len(item.bubbles) > 0
        THEN bubbleLines(item.bubbles[1])
        ELSE <<Line("nomessages", "", 0, <<>>)>>)
    \o <<Line("rule", "", 0, <<>>)>>

\* the lines of one conversation
itemLines(item) ==
    <<Line("h3", item.composer.composer.name, 0, <<>>),
      Line("mode", getModeInfo(item.composer.composer.mode).label,
           formatDateTime(item.composer.composer.lastUpdatedAt), <<>>)>>
    \o (IF Len(item.bubbles) > 0
        THEN concat([i \in 1..Len(item.bubbles) |-> bubbleLines(item.bubbles[i])])
        ELSE <<Line("nomessages", "", 0, <<>>)>>)
    \o <<Line("rule", "", 0, <<>>)>>

groupLines(group) ==
    <<Line("h2", group.workspace, 0, <<>>)>>
    \o concat([i \in 1..Len(group.items) |-> itemLines(group.items[i])])

filterLabel(filter) ==
    CASE filter = "all"       -> "All Dates"
      [] filter = "today"     -> "Today Only"
      [] filter = "yesterday" -> "Yesterday Only"
      [] OTHER                -> "Selected Date"

generateFilteredSummary(conversations, filter) ==
    LET mapped == [i \in 1..Len(conversations) |->
                      [composer |-> conversations[i].composer,
                       bubbles  |-> filterBubblesByDate(conversations[i].bubbles, filter)]]
        filteredConversations ==
            SelectSeq(mapped, LAMBDA conv : Len(conv.bubbles) > 0 \/ filter = "all")
        grouped == groupByWorkspace(filteredConversations)
    IN  <<Line("h1", "Chat History Summary", 0, <<>>),
          Line("generated", "", now, <<>>),
          Line("filter", filterLabel(filter), 0, <<>>),
          Line("total", "", Len(filteredConversations), <<>>),
          Line("rule", "", 0, <<>>)>>
        \o concat([g \in 1..Len(grouped) |-> groupLines(grouped[g])])

\* the label handleSelectAll computes for a composer
selectAllNameOf(c) ==
    IF c.workspaceFolder # Null
    THEN getWorkspaceName(c.workspaceFolder, c.workspaceId)
    ELSE "Unknown"

\* composers.forEach of handleSelectAll: isSelected reads the selection of
\* the render the handler belongs to (shown), while the updater of each
\* toggleSelection runs on the result of the one queued before it
RECURSIVE selectEach(_, _, _)
selectEach(prev, shown, composers) ==
    IF composers = <<>> THEN prev
    ELSE LET c == Head(composers)
         IN  selectEach(IF ~has(shown, c.composerId)
                        THEN toggleSelection(prev, c, selectAllNameOf(c))
                        ELSE prev,
                        shown, Tail(composers))

\* useState<DateFilter>('all'); the filter buttons of the dialog are not
\* pressed
dateFilter == "all"

\* the memo summaryText
summaryText == generateFilteredSummary(summaryData, dateFilter)

\* a JavaScript string is truthy unless it is empty
truthy(text) == text # <<>>

\* the list of titles handleCopy falls back to
quickSummary ==
    <<Line("h1", "Selected Conversations", 0, <<>>)>>
    \o [i \in 1..Len(selections) |->
           Line("item", selections[i].composer.name, 0, <<selections[i].workspaceName>>)]

NothingCopied == [text |-> <<>>, alerted |-> 0]

\* req.query.date: absent, or the text of a date
NoDate == [kind |-> "none", day |-> 0]
Day(d) == [kind |-> "day", day |-> d]

\* a fetch of useDates and one of useComposers(filterDate)
DatesFetch == [route |-> "dates", date |-> NoDate]
ComposersFetch(filterDate) == [route |-> "composers", date |-> filterDate]

\* the page as the browser has just loaded it: useState's initial values,
\* and the requests the effects of useDates and useComposers(null) sent
PageLoaded ==
    /\ composerList = <<>>
    /\ selections = <<>>
    /\ showModal = FALSE
    /\ summaryData = <<>>
    /\ runs = <<>>
    /\ clipboard = NothingCopied
    /\ dateList = <<>>
    /\ selectedDate = NoDate
    /\ fetches = <<DatesFetch, ComposersFetch(NoDate)>>
    /\ viewingComposer = Null
    /\ viewedBubbles = <<>>
    /\ bubbleFetches = <<>>

(***************************************************************************)
(* The stores the model starts from.  The server is constructed over       *)
(* whatever the IDE left on disk; each family below is a bounded set of    *)
(* such stores.                                                            *)
(***************************************************************************)
MaxComposers == 2
MaxPrompts == 3
MaxBubbles == 3
MaxHandles == 4
MaxRuns == 1
MaxGrouped == 3
MaxFetches == 3

\* Date.now() of the model's requests, and its local calendar day
NowMs == (DetailDays + 40) * MsPerDay
Today == toLocaleDateString(NowMs * Sub)

\* sequences over pool of length at most n
SeqsUpTo(pool, n) == UNION {[1..k -> pool] : k \in 0..n}

Num(v) == [type |-> "num", v |-> v]
\* a lastUpdatedAt stored as a string of digits
Str(v) == [type |-> "str", v |-> v]

RawComposer(id, at, name, created, mode) ==
    [kind |-> "obj", composerId |-> id, lastUpdatedAt |-> at, name |-> name,
     createdAt |-> created, unifiedMode |-> mode]

NullElement == [RawComposer("", Str(0), "", 0, "") EXCEPT !.kind = "null"]

Prompt(type, s) == [kind |-> "obj", text |-> [type |-> type, s |-> s]]
NullPrompt == [Prompt("undef", <<>>) EXCEPT !.kind = "null"]

NoPrompts == [json |-> "norow", items |-> <<>>]
NoComposers == [json |-> "norow", items |-> <<>>]
Array(items) == [json |-> "array", items |-> items]

Dir(db, mtime, wsJson, folderRow, prompts, composerData) ==
    [kind |-> "dir", db |-> db, mtime |-> mtime, wsJson |-> wsJson,
     folderRow |-> folderRow, prompts |-> prompts, composerData |-> composerData]

Database(mtime, prompts, composerData) ==
    Dir("ok", mtime, "uri", "none", prompts, composerData)

NoEntry == [Dir("none", 0, "missing", "none", NoPrompts, NoComposers)
                EXCEPT !.kind = "absent"]
PlainFile == [NoEntry EXCEPT !.kind = "file"]

NoGlobalDb == [file |-> "missing", rows |-> <<>>]

OnePrompt == Array(<<Prompt("str", <<"a">>)>>)

\* instants, in ticks
DaysAgo(n) == (NowMs - n * MsPerDay) * Sub
Recent == NowMs * Sub - 1

(* Listing: what the enumerator accepts and what it leaves out. *)
ListingContents ==
    { <<NoPrompts, NoComposers>>,
      <<[json |-> "bad", items |-> <<>>], [json |-> "noall", items |-> <<>>]>>,
      <<[json |-> "bad", items |-> <<>>], [json |-> "bad", items |-> <<>>]>>,
      <<Array(<<Prompt("str", <<"a">>)>>), [json |-> "bad", items |-> <<>>]>>,
      <<Array(<<>>), Array(<<RawComposer("c1", Num(Recent), "Alpha", 0, "agent")>>)>>,
      <<NoPrompts, Array(<<RawComposer("", Num(Recent), "", 0, "")>>)>>,
      <<NoPrompts, Array(<<RawComposer("c1", Num(0), "", 0, "")>>)>>,
      <<NoPrompts, Array(<<RawComposer("c1", Str(Recent), "", 0, "")>>)>>,
      <<NoPrompts, Array(<<NullElement, RawComposer("c1", Num(Recent), "", 0, "")>>)>>,
      <<[json |-> "other", items |-> <<>>],
        Array(<<RawComposer("c2", Num(-1), "", 0, ""),
                RawComposer("c1", Num(DaysAgo(1)), "", Recent, "")>>)>> }

ListingTimes == {DaysAgo(400), DaysAgo(100), DaysAgo(30) - 1, DaysAgo(30), Recent}

ListingDirs ==
    {NoEntry, PlainFile,
     Dir("none", 0, "uri", "none", NoPrompts, NoComposers),
     Dir("locked", Recent, "nofolder", "string", OnePrompt,
         Array(<<RawComposer("c1", Num(Recent), "Alpha", 0, "agent")>>)),
     Dir("corrupt", Recent, "uri", "none", OnePrompt, NoComposers)}
    \cup {Dir("ok", t, "nofolder", "uri", c[1], c[2]) :
             t \in ListingTimes, c \in ListingContents}

InitListing ==
    /\ root \in {"dir", "missing", "file"}
    /\ dirs \in [WsIds -> ListingDirs]
    /\ root # "dir" => dirs = [w \in WsIds |-> NoEntry]
    /\ globalDb = NoGlobalDb
    /\ now = NowMs
    /\ req = NoReq
    /\ resp = NoResp
    /\ handles = 0
    /\ PageLoaded

(* Dates: composers around the boundaries of local days, in two workspaces
   modified on different days. *)
DatesTimes ==
    {endOfDay(Today - 2), startOfDay(Today - 1), endOfDay(Today - 1),
     endOfDay(Today - 1) + 1, startOfDay(Today)}

\* the k-th composer of a workspace
Composer(w, k, at) ==
    RawComposer(w \o "-c" \o ToString(k), Num(at),
                IF k = 1 THEN "Alpha" ELSE "", 0, IF k = 1 THEN "agent" ELSE "")

DatesComposers(w) ==
    {[k \in 1..Len(ts) |-> Composer(w, k, ts[k])] : ts \in SeqsUpTo(DatesTimes, MaxComposers)}

DatesDirs1 ==
    {Database(t, p, Array(cs)) :
        t \in {startOfDay(Today - 1), startOfDay(Today)},
        p \in {NoPrompts, OnePrompt},
        cs \in DatesComposers("w1")}

DatesDirs2 ==
    {NoEntry}
    \cup {Database(t, p, Array(cs)) :
        t \in {DaysAgo(100), endOfDay(Today - 1)},
        p \in {NoPrompts, OnePrompt},
        cs \in {<<>>, <<Composer("w2", 1, endOfDay(Today - 1))>>,
                <<Composer("w2", 1, startOfDay(Today))>>}}

InitDates ==
    /\ root = "dir"
    /\ \E d1 \in DatesDirs1, d2 \in DatesDirs2 : dirs = ("w1" :> d1 @@ "w2" :> d2)
    /\ globalDb = NoGlobalDb
    /\ now = NowMs
    /\ req = NoReq
    /\ resp = NoResp
    /\ handles = 0
    /\ PageLoaded

(* Grouping: one workspace whose composers lie around the boundaries of
   local days in every order, so that composers of one day are stored with
   composers of another day between them. *)
GroupingComposers ==
    {[k \in 1..Len(ts) |-> Composer("w1", k, ts[k])] : ts \in SeqsUpTo(DatesTimes, MaxGrouped)}

GroupingDirs == {Database(startOfDay(Today), OnePrompt, Array(cs)) : cs \in GroupingComposers}

InitGrouping ==
    /\ root = "dir"
    /\ \E d1 \in GroupingDirs : dirs = ("w1" :> d1 @@ "w2" :> NoEntry)
    /\ globalDb = NoGlobalDb
    /\ now = NowMs
    /\ req = NoReq
    /\ resp = NoResp
    /\ handles = 0
    /\ PageLoaded

(* Search: prompts of every shape in one workspace, a second workspace
   before or after it in the enumeration. *)
SearchPrompts ==
    {Prompt("str", <<"A", " ", "b">>), Prompt("str", <<"B">>),
     Prompt("undef", <<>>), Prompt("other", <<>>), NullPrompt}

SearchDirs1 ==
    {Database(DaysAgo(1), Array(ps), NoComposers) :
        ps \in SeqsUpTo(SearchPrompts, MaxPrompts)}

SearchDirs2 ==
    {NoEntry,
     Dir("ok", Recent, "missing", "none", Array(<<Prompt("str", <<"a", "b">>)>>), NoComposers),
     Database(DaysAgo(2), Array(<<Prompt("str", <<"b">>)>>), NoComposers)}

InitSearch ==
    /\ root = "dir"
    /\ \E d1 \in SearchDirs1, d2 \in SearchDirs2 : dirs = ("w1" :> d1 @@ "w2" :> d2)
    /\ globalDb = NoGlobalDb
    /\ now = NowMs
    /\ req = NoReq
    /\ resp = NoResp
    /\ handles = 0
    /\ PageLoaded

(* Bubbles: the rows of the global database. *)
Created(ms) == [kind |-> "time", ms |-> ms]
NoCreated == [kind |-> "none", ms |-> 0]

Value(json, text, type, createdAt) ==
    [json |-> json, text |-> text, type |-> type, createdAt |-> createdAt]

\* a row: the conversation it belongs to and its value.  Conversation ids
\* are strings: one differs from another only in letter case, one holds a
\* colon.
BubblePool ==
    {<<<<"a">>, Value("bad", <<>>, 0, NoCreated)>>,
     <<<<"a">>, Value("obj", <<>>, 1, Created(NowMs))>>,
     <<<<"a">>, Value("obj", <<"h", "i">>, 1, Created(NowMs - 2))>>,
     <<<<"a">>, Value("obj", <<"y", "o">>, 2, Created(NowMs - 1))>>,
     <<<<"a">>, Value("obj", <<"o", "k">>, 0, Created(NowMs))>>,
     <<<<"a">>, Value("obj", <<"n", "o">>, 2, NoCreated)>>,
     <<<<"b">>, Value("obj", <<"b", "y">>, 1, Created(NowMs - 3))>>,
     <<<<"A">>, Value("obj", <<"u", "p">>, 1, Created(NowMs - 3))>>,
     <<<<"x", ":", "y">>, Value("obj", <<"x", "y">>, 2, Created(NowMs - 3))>>}

\* the k-th row stored: bubbleId:<conversation>:<k>
Row(k, b) == [key |-> KeyPrefix \o b[1] \o <<":", ToString(k)>>, value |-> b[2]]

BubbleRows ==
    {[k \in 1..Len(bs) |-> Row(k, bs[k])] : bs \in SeqsUpTo(BubblePool, MaxBubbles)}

InitBubbles ==
    /\ root = "missing"
    /\ dirs = [w \in WsIds |-> NoEntry]
    /\ globalDb \in {NoGlobalDb} \cup {[file |-> f, rows |-> rows] :
                                          f \in {"ok", "locked", "corrupt"}, rows \in BubbleRows}
    /\ now = NowMs
    /\ req = NoReq
    /\ resp = NoResp
    /\ handles = 0
    /\ PageLoaded

(* Client: two workspaces with one conversation each, whose bubbles the
   global database holds; the ids of the two differ in letter case only. *)
ClientBubblePool ==
    {<<<<"a">>, Value("obj", <<"h", "i">>, 1, Created(NowMs - 2))>>,
     <<<<"a">>, Value("obj", <<"y", "o">>, 2, Created(NowMs - 1))>>,
     <<<<"A">>, Value("obj", <<"u", "p">>, 1, Created(NowMs - 3))>>}

\* the stored rows: each bubble of the pool at most once, in any order
ClientRows ==
    {[k \in 1..Len(bs) |-> Row(k, bs[k])] :
        bs \in {s \in SeqsUpTo(ClientBubblePool, MaxBubbles) :
                   \A i, j \in 1..Len(s) : s[i] = s[j] => i = j}}

ClientDirs ==
    "w1" :> Database(Recent, NoPrompts,
                     Array(<<RawComposer("a", Num(Recent), "Alpha", 0, "agent")>>))
    @@ "w2" :> Dir("ok", DaysAgo(1), "missing", "none", NoPrompts,
                   Array(<<RawComposer("A", Num(DaysAgo(1)), "", 0, "")>>))

InitClient ==
    /\ root = "dir"
    /\ dirs = ClientDirs
    /\ globalDb \in {[file |-> "ok", rows |-> rows] : rows \in ClientRows}
    /\ now = NowMs
    /\ req = NoReq
    /\ resp = NoResp
    /\ handles = 0
    /\ PageLoaded

(* Summary: the bubbles the date filters of the summary tell apart: one of
   yesterday, one of today, one without a timestamp, one of two days ago.
   The database holds any of them, in this order. *)
SummaryBubblePool ==
    <<<<<<"a">>, Value("obj", <<"h", "i">>, 1, Created(NowMs - 2))>>,
      <<<<"a">>, Value("obj", <<"y", "o">>, 2, Created(NowMs - 1))>>,
      <<<<"a">>, Value("obj", <<"n", "o">>, 2, NoCreated)>>,
      <<<<"A">>, Value("obj", <<"u", "p">>, 1, Created(NowMs - 4))>>>>

SummaryRows ==
    {LET bs == SelectSeq(SummaryBubblePool, LAMBDA b : b \in chosen)
     IN  [k \in 1..Len(bs) |-> Row(k, bs[k])] :
        chosen \in {c \in SUBSET {SummaryBubblePool[i] : i \in 1..Len(SummaryBubblePool)} :
                       Cardinality(c) <= MaxBubbles}}

InitSummary ==
    /\ root = "dir"
    /\ dirs = ClientDirs
    /\ globalDb \in {[file |-> "ok", rows |-> rows] : rows \in SummaryRows}
    /\ now = NowMs
    /\ req = NoReq
    /\ resp = NoResp
    /\ handles = 0
    /\ PageLoaded

(* Selection: the two workspaces hold different conversations, or the same
   conversation id in both, or one workspace holds both conversations. *)
SharedIdDirs ==
    "w1" :> Database(Recent, NoPrompts,
                     Array(<<RawComposer("a", Num(Recent), "Alpha", 0, "agent")>>))
    @@ "w2" :> Dir("ok", DaysAgo(1), "missing", "none", NoPrompts,
                   Array(<<RawComposer("a", Num(DaysAgo(1)), "", 0, "")>>))

OneWorkspaceDirs ==
    "w1" :> Database(Recent, NoPrompts,
                     Array(<<RawComposer("A", Num(DaysAgo(1)), "Beta", 0, "edit"),
                             RawComposer("a", Num(Recent), "Alpha", 0, "agent")>>))
    @@ "w2" :> NoEntry

SelectionRows ==
    {<<>>, [k \in 1..2 |-> Row(k, SummaryBubblePool[k])]}

InitSelection ==
    /\ root = "dir"
    /\ dirs \in {ClientDirs, SharedIdDirs, OneWorkspaceDirs}
    /\ globalDb \in {[file |-> "ok", rows |-> rows] : rows \in SelectionRows}
    /\ now = NowMs
    /\ req = NoReq
    /\ resp = NoResp
    /\ handles = 0
    /\ PageLoaded

(* Viewing: two conversations with bubbles of their own, updated today and
   yesterday. *)
ViewingDirs ==
    "w1" :> Database(Recent, NoPrompts,
                     Array(<<RawComposer("a", Num(Recent), "Alpha", 0, "agent")>>))
    @@ "w2" :> Database(DaysAgo(1), NoPrompts,
                        Array(<<RawComposer("b", Num(DaysAgo(1)), "Beta", 0, "chat")>>))

ViewingRows ==
    <<Row(1, <<<<"a">>, Value("obj", <<"h", "i">>, 1, Created(NowMs - 2))>>),
      Row(2, <<<<"b">>, Value("obj", <<"b", "y">>, 2, Created(NowMs - 1))>>)>>

InitViewing ==
    /\ root = "dir"
    /\ dirs = ViewingDirs
    /\ globalDb = [file |-> "ok", rows |-> ViewingRows]
    /\ now = NowMs
    /\ req = NoReq
    /\ resp = NoResp
    /\ handles = 0
    /\ PageLoaded

(***************************************************************************)
(* The requests.  Node runs one handler at a time, each to completion on   *)
(* the store as it is; the response is then written out and the server is  *)
(* idle until the next request.                                            *)
(***************************************************************************)
Idle == req = NoReq
DaysInputs ==
    {[kind |-> "absent", v |-> 0], [kind |-> "text", v |-> 0],
     [kind |-> "int", v |-> 0], [kind |-> "int", v |-> 1], [kind |-> "int", v |-> 400]}

IdInputs == WsIds \cup {"w3"}

DateInputs ==
    {NoDate, [kind |-> "bad", day |-> 0]} \cup {Day(d) : d \in (Today - 2)..Today}

ComposerIdInputs ==
    {<<"a">>, <<"b">>, <<"c">>, <<"A">>, <<"%">>, <<"_">>, <<"x", ":", "y">>}

QueryInputs ==
    {[present |-> FALSE, s |-> <<>>]}
    \cup {[present |-> TRUE, s |-> q] :
             q \in {<<>>, <<" ">>, <<"a">>, <<"B">>, <<"a", " ">>, <<"c">>}}

GetWorkspaces(days) ==
    /\ Idle
    /\ req' = [route |-> "workspaces", days |-> days]
    /\ resp' = workspacesResponse(days)
    /\ handles + listUnclosed(parseDays(days)) <= MaxHandles
    /\ handles' = handles + listUnclosed(parseDays(days))
    /\ dirs' = dirsAfter(parseDays(days))
    /\ globalDb' = globalDb
    /\ UNCHANGED <<root, now, client>>

GetWorkspace(id, filterDate) ==
    /\ Idle
    /\ req' = [route |-> "workspace", id |-> id, date |-> filterDate]
    /\ resp' = workspaceResponse(id, filterDate)
    /\ handles + listUnclosed(DetailDays) <= MaxHandles
    /\ handles' = handles + listUnclosed(DetailDays)
    /\ dirs' = dirsAfter(DetailDays)
    /\ globalDb' = globalDb
    /\ UNCHANGED <<root, now, client>>

GetDates ==
    /\ Idle
    /\ req' = [route |-> "dates"]
    /\ resp' = datesResponse
    /\ handles + listUnclosed(DefaultDays) <= MaxHandles
    /\ handles' = handles + listUnclosed(DefaultDays)
    /\ dirs' = dirsAfter(DefaultDays)
    /\ globalDb' = globalDb
    /\ UNCHANGED <<root, now, client>>

GetComposers(filterDate) ==
    /\ Idle
    /\ req' = [route |-> "composers", date |-> filterDate]
    /\ resp' = composersResponse(filterDate)
    /\ handles + listUnclosed(DefaultDays) <= MaxHandles
    /\ handles' = handles + listUnclosed(DefaultDays)
    /\ dirs' = dirsAfter(DefaultDays)
    /\ globalDb' = globalDb
    /\ UNCHANGED <<root, now, client>>

GetBubbles(composerId) ==
    /\ Idle
    /\ req' = [route |-> "bubbles", composerId |-> composerId]
    /\ resp' = bubblesResponse(composerId)
    /\ handles + bubblesUnclosed <= MaxHandles
    /\ handles' = handles + bubblesUnclosed
    /\ dirs' = dirs
    /\ globalDb' = globalDbAfter
    /\ UNCHANGED <<root, now, client>>

GetSearch(q) ==
    /\ Idle
    /\ req' = [route |-> "search", q |-> q]
    /\ resp' = searchResponse(q)
    /\ handles + searchUnclosed(q) <= MaxHandles
    /\ handles' = handles + searchUnclosed(q)
    /\ dirs' = (IF queryOf(q) = <<>> THEN dirs ELSE dirsAfter(DefaultDays))
    /\ globalDb' = globalDb
    /\ UNCHANGED <<root, now, client>>

\* res.json / res.status(...).json / the default error handler has answered
Complete ==
    /\ ~Idle
    /\ req' = NoReq
    /\ resp' = NoResp
    /\ UNCHANGED <<store, handles, client>>

Next ==
    \/ \E days \in DaysInputs : GetWorkspaces(days)
    \/ \E id \in IdInputs, filterDate \in DateInputs : GetWorkspace(id, filterDate)
    \/ GetDates
    \/ \E filterDate \in DateInputs : GetComposers(filterDate)
    \/ \E composerId \in ComposerIdInputs : GetBubbles(composerId)
    \/ \E q \in QueryInputs : GetSearch(q)
    \/ Complete

(***************************************************************************)
(* The page.  Its requests are served by the handlers above; the dialog    *)
(* is modal, so the lists behind it are clicked only while it is closed.   *)
(***************************************************************************)
ClientDateInputs == {d \in DateInputs : d.kind # "bad"}

\* useComposers(filterDate): the answer of /api/composers is set as the
\* list; the page of a 500 answer is no JSON and leaves the list as it is
UseComposers(filterDate) ==
    LET res == composersResponse(filterDate)
    IN  /\ ~showModal
        /\ handles + listUnclosed(DefaultDays) <= MaxHandles
        /\ handles' = handles + listUnclosed(DefaultDays)
        /\ composerList' = IF res.type = "json" THEN res.body ELSE composerList
        /\ dirs' = dirsAfter(DefaultDays)
        /\ UNCHANGED <<root, globalDb, now, req, resp, selections, showModal, summaryData, runs,
                   clipboard, nav, viewer>>

\* a click on the i-th composer of the list
handleComposerClick(i) ==
    /\ ~showModal
    /\ i \in 1..Len(composerList)
    /\ selections' = toggleSelection(selections, composerList[i],
                                     workspaceNameOf(composerList[i]))
    /\ UNCHANGED <<store, req, resp, handles, composerList, showModal, summaryData, runs,
                   clipboard, nav, viewer>>

\* the x of an entry of the selection panel
removeSelection(key) ==
    /\ ~showModal
    /\ has(selections, key)
    /\ selections' = delete(selections, key)
    /\ UNCHANGED <<store, req, resp, handles, composerList, showModal, summaryData, runs,
                   clipboard, nav, viewer>>

clearAll ==
    /\ ~showModal
    /\ selections' = <<>>
    /\ UNCHANGED <<store, req, resp, handles, composerList, showModal, summaryData, runs,
                   clipboard, nav, viewer>>

\* View Summary: the dialog opens and the effect starts fetchAllBubbles on
\* the selections of this render
ViewSummary ==
    /\ ~showModal
    /\ selections # <<>>
    /\ Len(runs) < MaxRuns
    /\ showModal' = TRUE
    /\ runs' = Append(runs, [selections |-> selections, results |-> <<>>])
    /\ UNCHANGED <<store, req, resp, handles, composerList, selections, summaryData,
                   clipboard, nav, viewer>>

CloseSummary ==
    /\ showModal
    /\ showModal' = FALSE
    /\ UNCHANGED <<store, req, resp, handles, composerList, selections, summaryData, runs,
                   clipboard, nav, viewer>>

\* one turn of the loop of fetchAllBubbles in the r-th running call: the
\* bubbles of the next selected conversation arrive and are pushed; after
\* the last one, setSummaryData(results)
FetchBubbles(r) ==
    /\ r \in 1..Len(runs)
    /\ handles + bubblesUnclosed <= MaxHandles
    /\ handles' = handles + bubblesUnclosed
    /\ LET run     == runs[r]
           entry   == run.selections[Len(run.results) + 1]
           data    == [composer |-> entry.composer, workspaceName |-> entry.workspaceName]
           res     == bubblesResponse(chars(data.composer.composerId))
           results == Append(run.results, [composer |-> data, bubbles |-> res.body])
       IN  IF Len(results) = Len(run.selections)
           THEN /\ summaryData' = results
                /\ runs' = SubSeq(runs, 1, r - 1) \o SubSeq(runs, r + 1, Len(runs))
           ELSE /\ summaryData' = summaryData
                /\ runs' = [runs EXCEPT ![r].results = results]
    /\ globalDb' = globalDbAfter
    /\ UNCHANGED <<root, dirs, now, req, resp, composerList, selections, showModal,
                   clipboard, nav, viewer>>

\* a response of the server reaches the hook that asked for it: the k-th
\* of the outstanding, in whatever order they arrive.  The dates are set as
\* the date list, and the render that follows selects today, or the first
\* date when today is not listed, if no date is selected; the changed date
\* makes useComposers fetch again.  Composers are set as the composer list.
Deliver(k) ==
    /\ k \in 1..Len(fetches)
    /\ handles + listUnclosed(DefaultDays) <= MaxHandles
    /\ handles' = handles + listUnclosed(DefaultDays)
    /\ dirs' = dirsAfter(DefaultDays)
    /\ LET fetch == fetches[k]
           rest  == SubSeq(fetches, 1, k - 1) \o SubSeq(fetches, k + 1, Len(fetches))
           res   == IF fetch.route = "dates" THEN datesResponse
                    ELSE composersResponse(fetch.date)
           today == toLocaleDateString(now * Sub)
       IN  IF fetch.route = "dates"
           THEN /\ dateList' = IF res.type = "json" THEN res.body ELSE dateList
                /\ selectedDate' =
                      IF Len(dateList') > 0 /\ selectedDate = NoDate
                      THEN IF \E i \in 1..Len(dateList') : dateList'[i].date = today
                           THEN Day(today)
                           ELSE Day(dateList'[1].date)
                      ELSE selectedDate
                /\ fetches' = IF selectedDate' # selectedDate
                              THEN Append(rest, ComposersFetch(selectedDate'))
                              ELSE rest
                /\ UNCHANGED composerList
           ELSE /\ composerList' = IF res.type = "json" THEN res.body ELSE composerList
                /\ fetches' = rest
                /\ UNCHANGED <<dateList, selectedDate>>
    /\ UNCHANGED <<root, globalDb, now, req, resp, selections, showModal, summaryData,
                   runs, clipboard, viewer>>

\* a click on the i-th date of the date list: the date is selected and the
\* detail pane closed; useComposers fetches when the date has changed, and
\* useBubbles empties its bubbles when a conversation was open
onSelectDate(i) ==
    /\ ~showModal
    /\ i \in 1..Len(dateList)
    /\ Len(fetches) < MaxFetches
    /\ selectedDate' = Day(dateList[i].date)
    /\ fetches' = IF selectedDate' # selectedDate
                  THEN Append(fetches, ComposersFetch(selectedDate'))
                  ELSE fetches
    /\ viewingComposer' = Null
    /\ viewedBubbles' = IF viewingComposer # Null THEN <<>> ELSE viewedBubbles
    /\ UNCHANGED <<store, req, resp, handles, composerList, dateList, selections, showModal,
                   summaryData, runs, clipboard, bubbleFetches>>

\* a click on the i-th composer of the list, in the detail pane: the
\* conversation is opened, and useBubbles fetches its bubbles when it is
\* another conversation than the one open
viewComposer(i) ==
    /\ ~showModal
    /\ i \in 1..Len(composerList)
    /\ Len(bubbleFetches) < MaxFetches
    /\ viewingComposer' = Some(composerList[i])
    /\ bubbleFetches' =
          IF viewingComposer = Null \/ viewingComposer[1].composerId # composerList[i].composerId
          THEN Append(bubbleFetches, composerList[i].composerId)
          ELSE bubbleFetches
    /\ UNCHANGED <<store, req, resp, handles, composerList, selections, showModal,
                   summaryData, runs, clipboard, nav, viewedBubbles>>

\* the x of the detail pane
onClose ==
    /\ ~showModal
    /\ viewingComposer # Null
    /\ viewingComposer' = Null
    /\ viewedBubbles' = <<>>
    /\ UNCHANGED <<store, req, resp, handles, composerList, selections, showModal,
                   summaryData, runs, clipboard, nav, bubbleFetches>>

\* the bubbles of the k-th outstanding request of useBubbles arrive and are
\* set
DeliverBubbles(k) ==
    /\ k \in 1..Len(bubbleFetches)
    /\ handles + bubblesUnclosed <= MaxHandles
    /\ handles' = handles + bubblesUnclosed
    /\ globalDb' = globalDbAfter
    /\ viewedBubbles' = bubblesResponse(chars(bubbleFetches[k])).body
    /\ bubbleFetches' = SubSeq(bubbleFetches, 1, k - 1)
                        \o SubSeq(bubbleFetches, k + 1, Len(bubbleFetches))
    /\ UNCHANGED <<root, dirs, now, req, resp, composerList, selections, showModal,
                   summaryData, runs, clipboard, nav, viewingComposer>>

\* Select All above the composer list
handleSelectAll ==
    /\ ~showModal
    /\ composerList # <<>>
    /\ selections' = selectEach(selections, selections, composerList)
    /\ UNCHANGED <<store, req, resp, handles, composerList, showModal, summaryData, runs,
                   clipboard, nav, viewer>>

\* Copy to Clipboard in the selection panel
handleCopy ==
    /\ ~showModal
    /\ selections # <<>>
    /\ clipboard' = [text    |-> IF truthy(summaryText) THEN summaryText ELSE quickSummary,
                     alerted |-> Len(selections)]
    /\ UNCHANGED <<store, req, resp, handles, composerList, selections, showModal,
                   summaryData, runs, nav, viewer>>

NextClient ==
    \/ \E filterDate \in ClientDateInputs : UseComposers(filterDate)
    \/ \E i \in 1..MaxComposers : handleComposerClick(i)
    \/ \E key \in {"a", "A"} : removeSelection(key)
    \/ clearAll
    \/ ViewSummary
    \/ CloseSummary
    \/ \E r \in 1..MaxRuns : FetchBubbles(r)

SpecListing == InitListing /\ [][Next]_vars
SpecDates == InitDates /\ [][Next]_vars
SpecSearch == InitSearch /\ [][Next]_vars
SpecBubbles == InitBubbles /\ [][Next]_vars
NextSelection ==
    \/ \E filterDate \in ClientDateInputs : UseComposers(filterDate)
    \/ \E i \in 1..MaxComposers : handleComposerClick(i)
    \/ \E key \in {"a", "A"} : removeSelection(key)
    \/ clearAll
    \/ handleSelectAll
    \/ handleCopy
    \/ ViewSummary
    \/ CloseSummary
    \/ \E r \in 1..MaxRuns : FetchBubbles(r)

\* the date list, the composer list and the detail pane
NextViewing ==
    \/ \E k \in 1..MaxFetches : Deliver(k)
    \/ \E i \in 1..MaxComposers : onSelectDate(i)
    \/ \E i \in 1..MaxComposers : viewComposer(i)
    \/ onClose
    \/ \E k \in 1..MaxFetches : DeliverBubbles(k)

\* the unfiltered composer list, the selection by clicks and the summary
NextSummary ==
    \/ UseComposers(NoDate)
    \/ \E i \in 1..MaxComposers : handleComposerClick(i)
    \/ ViewSummary
    \/ CloseSummary
    \/ \E r \in 1..MaxRuns : FetchBubbles(r)

\* the composer list and the selection alone
NextChoosing ==
    \/ \E filterDate \in ClientDateInputs : UseComposers(filterDate)
    \/ \E i \in 1..MaxComposers : handleComposerClick(i)
    \/ \E key \in {"a", "A"} : removeSelection(key)
    \/ clearAll
    \/ handleSelectAll

SpecGrouping == InitGrouping /\ [][Next]_vars
SpecClient == InitClient /\ [][NextClient]_vars
SpecSummary == InitSummary /\ [][NextSummary]_vars
SpecSelection == InitSelection /\ [][NextSelection]_vars
SpecChoosing == InitSelection /\ [][NextChoosing]_vars
SpecViewing == InitViewing /\ [][NextViewing]_vars

Spec == (InitListing \/ InitDates \/ InitSearch \/ InitBubbles) /\ [][Next]_vars

(***************************************************************************)
(* Properties.                                                             *)
(***************************************************************************)
Answered(route) == req.route = route /\ resp.status = 200

\* the composers a workspace's database holds, as the store has them:
\* nothing when the value cannot be read as an array of objects
StoredComposers(w) ==
    LET d == dirs[w]
    IN  IF /\ root = "dir" /\ d.kind = "dir" /\ d.db = "ok"
           /\ d.composerData.json = "array"
           /\ \A i \in 1..Len(d.composerData.items) : d.composerData.items[i].kind = "obj"
        THEN d.composerData.items
        ELSE <<>>

StoredPrompts(w) ==
    LET d == dirs[w]
    IN  IF root = "dir" /\ d.kind = "dir" /\ d.db = "ok" /\ d.prompts.json = "array"
        THEN d.prompts.items
        ELSE <<>>

ValidComposer(c) ==
    c.composerId # "" /\ c.lastUpdatedAt.type = "num" /\ c.lastUpdatedAt.v > 0

HasNothing(w) ==
    /\ StoredPrompts(w) = <<>>
    /\ \A i \in 1..Len(StoredComposers(w)) : ~ValidComposer(StoredComposers(w)[i])

\* the workspace ids a response mentions
Exposed ==
    CASE Answered("workspaces") -> {resp.body[i].id : i \in 1..Len(resp.body)}
      [] Answered("workspace")  -> {resp.body.id}
      [] Answered("dates")      ->
           UNION {{resp.body[i].workspaceIds[j] : j \in 1..Len(resp.body[i].workspaceIds)} :
                     i \in 1..Len(resp.body)}
      [] Answered("composers")  -> {resp.body[i].workspaceId : i \in 1..Len(resp.body)}
      [] Answered("search")     -> {resp.body[i].workspace : i \in 1..Len(resp.body)}
      [] OTHER                  -> {}

Windows == {1, DefaultDays, DetailDays, 400}

\* C1: listWorkspaces, for every lookback window, returns no workspace whose
\* prompts and retained composers are both empty, and no response of an
\* endpoint built on it mentions such a workspace.
C1_NoEmptyWorkspace ==
    /\ \A daysBack \in Windows :
          \A i \in 1..Len(listWorkspaces(daysBack).list) :
              ~HasNothing(listWorkspaces(daysBack).list[i].id)
    /\ \A w \in Exposed : ~HasNothing(w)

\* an empty workspace with a fresh database is left out of a listing that
\* returns the other workspace
C1_Witness ==
    /\ Answered("workspaces")
    /\ \E w \in WsIds :
          /\ dirs[w].db = "ok" /\ dirs[w].mtime = Recent /\ HasNothing(w)
          /\ Len(resp.body) = 1
          /\ resp.body[1].id # w

\* the composers a response carries, each with the workspace it is from
ResponseComposers ==
    CASE Answered("workspace") ->
           {<<resp.body.id, resp.body.composers[i]>> : i \in 1..Len(resp.body.composers)}
           \cup UNION {{<<resp.body.id, resp.body.composersByDate[g].items[i]>> :
                           i \in 1..Len(resp.body.composersByDate[g].items)} :
                       g \in 1..Len(resp.body.composersByDate)}
      [] Answered("composers") ->
           {<<resp.body[i].workspaceId, resp.body[i]>> : i \in 1..Len(resp.body)}
      [] OTHER -> {}

\* the positions of the valid records among a workspace's stored composers
ValidAt(w) == {i \in 1..Len(StoredComposers(w)) : ValidComposer(StoredComposers(w)[i])}

StoredValid == UNION {{<<w, j>> : j \in ValidAt(w)} : w \in WsIds}

\* C2: every composer in a response has a non-empty composerId and a
\* lastUpdatedAt above 0 and is one of the stored records with a numeric
\* positive lastUpdatedAt; the composer counts of /api/workspaces and
\* /api/dates count no other record.
C2_OnlyValidComposers ==
    /\ \A wc \in ResponseComposers :
          /\ wc[2].composerId # ""
          /\ wc[2].lastUpdatedAt > 0
          /\ \E i \in ValidAt(wc[1]) :
                /\ StoredComposers(wc[1])[i].composerId = wc[2].composerId
                /\ StoredComposers(wc[1])[i].lastUpdatedAt.v = wc[2].lastUpdatedAt
    /\ Answered("workspaces") =>
          \A i \in 1..Len(resp.body) :
              resp.body[i].composerCount = Cardinality(ValidAt(resp.body[i].id))
    /\ Answered("dates") =>
          \A i \in 1..Len(resp.body) :
              resp.body[i].composerCount <=
                  Cardinality({wj \in StoredValid :
                      /\ toLocaleDateString(StoredComposers(wj[1])[wj[2]].lastUpdatedAt.v)
                             = resp.body[i].date})

\* a workspace storing a record with a negative lastUpdatedAt beside a valid
\* one is returned with the valid one alone
C2_Witness ==
    /\ Answered("workspace")
    /\ Len(StoredComposers(resp.body.id)) = 2
    /\ StoredComposers(resp.body.id)[1].lastUpdatedAt.v < 0
    /\ Len(resp.body.composers) = 1
    /\ resp.body.composers[1].composerId = StoredComposers(resp.body.id)[2].composerId

\* the valid stored composers of a workspace, in stored order
ValidStored(w) == SelectSeq(StoredComposers(w), ValidComposer)

\* t lies between local 00:00:00.000 and local 23:59:59.999 of day d,
\* both included
InClosedDay(t, d) ==
    LET localTicks == t + TzMs * Sub
    IN  /\ localTicks >= d * MsPerDay * Sub
        /\ localTicks <= (d * MsPerDay + MsPerDay - 1) * Sub

SameComposers(got, stored) ==
    /\ Len(got) = Len(stored)
    /\ \A i \in 1..Len(got) :
          /\ got[i].composerId = stored[i].composerId
          /\ got[i].lastUpdatedAt = stored[i].lastUpdatedAt.v

\* C3: the detail endpoint with date filter D returns exactly the
\* workspace's composers whose lastUpdatedAt lies in the closed interval
\* from local 00:00:00.000 to local 23:59:59.999 of D, and all of the
\* workspace's composers when no date is given.
C3_DateFilterExact ==
    Answered("workspace") =>
        /\ req.date.kind = "none" =>
              SameComposers(resp.body.composers, ValidStored(req.id))
        /\ req.date.kind = "day" =>
              SameComposers(resp.body.composers,
                            SelectSeq(ValidStored(req.id),
                                      LAMBDA c : InClosedDay(c.lastUpdatedAt.v, req.date.day)))

\* a composer updated at 23:59:59.999 of D is returned, one updated half a
\* millisecond later is not
C3_Witness ==
    /\ Answered("workspace")
    /\ req.date.kind = "day"
    /\ Len(resp.body.composers) = 1
    /\ resp.body.composers[1].lastUpdatedAt = endOfDay(req.date.day)
    /\ \E i \in 1..Len(ValidStored(req.id)) :
          ValidStored(req.id)[i].lastUpdatedAt.v = endOfDay(req.date.day) + 1

\* the ids of the workspaces listWorkspaces(daysBack) returns
Enumerated(daysBack) ==
    {listWorkspaces(daysBack).list[i].id : i \in 1..Len(listWorkspaces(daysBack).list)}

\* C4: whenever the 365-day enumeration completes, the detail endpoint
\* answers 404 with the error payload, and nothing else, exactly when the
\* requested id is not among the enumerated workspaces; otherwise it
\* answers with that workspace.
C4_NotFoundIffUnknown ==
    (req.route = "workspace" /\ ~listWorkspaces(DetailDays).threw) =>
        /\ resp.status = 404 <=> req.id \notin Enumerated(DetailDays)
        /\ resp.status = 404 =>
              resp.type = "json" /\ resp.body = [error |-> "Workspace not found"]
        /\ resp.status # 404 => resp.status = 200 /\ resp.body.id = req.id

\* a stored workspace with a prompt, last modified 400 days ago, is not found
C4_Witness ==
    /\ req.route = "workspace"
    /\ resp.status = 404
    /\ req.id \in WsIds
    /\ dirs[req.id].db = "ok"
    /\ dirs[req.id].mtime = DaysAgo(400)
    /\ ~HasNothing(req.id)

\* the instant t falls on local calendar day d
OnLocalDay(t, d) ==
    LET localTicks == t + TzMs * Sub
    IN  localTicks >= d * MsPerDay * Sub /\ localTicks < (d + 1) * MsPerDay * Sub

\* the stored valid composers of the workspaces enumerated over the default
\* window that were last updated on day d
UpdatedOn(d) ==
    {wj \in StoredValid :
        /\ wj[1] \in Enumerated(DefaultDays)
        /\ OnLocalDay(StoredComposers(wj[1])[wj[2]].lastUpdatedAt.v, d)}

\* the enumerated workspaces whose database was modified on day d
ModifiedOn(d) == {w \in Enumerated(DefaultDays) : OnLocalDay(dirs[w].mtime, d)}

RECURSIVE PromptTotal(_)
PromptTotal(ws) ==
    IF ws = {} THEN 0
    ELSE LET w == CHOOSE x \in ws : TRUE
         IN  Len(StoredPrompts(w)) + PromptTotal(ws \ {w})

\* C5: /api/dates returns no entry with composerCount 0: every returned date
\* is one on which a composer was last updated, so the date of a workspace's
\* modification on which no composer was updated is absent.
C5_NoDateWithoutComposer ==
    Answered("dates") =>
        /\ \A i \in 1..Len(resp.body) :
              resp.body[i].composerCount > 0 /\ UpdatedOn(resp.body[i].date) # {}
        /\ \A w \in Enumerated(DefaultDays) :
              UpdatedOn(toLocaleDateString(dirs[w].mtime)) = {} =>
                  \A i \in 1..Len(resp.body) :
                      resp.body[i].date # toLocaleDateString(dirs[w].mtime)

\* a workspace with a prompt was modified on a day on which no composer was
\* updated; the result lists another day and not that one
C5_Witness ==
    /\ Answered("dates")
    /\ Len(resp.body) >= 1
    /\ \E w \in Enumerated(DefaultDays) :
          /\ Len(StoredPrompts(w)) > 0
          /\ UpdatedOn(toLocaleDateString(dirs[w].mtime)) = {}

\* C6: for every date D that /api/dates returns, composerCount is the number
\* of composers of the enumerated workspaces last updated on local day D and
\* promptCount is the sum of the prompt counts of the enumerated workspaces
\* whose database was modified on local day D.
C6_DateCounts ==
    Answered("dates") =>
        \A i \in 1..Len(resp.body) :
            /\ resp.body[i].composerCount = Cardinality(UpdatedOn(resp.body[i].date))
            /\ resp.body[i].promptCount = PromptTotal(ModifiedOn(resp.body[i].date))

\* a date with two composers of two workspaces and the one prompt of the
\* workspace modified that day, while the other workspace's prompt belongs
\* to another day
C6_Witness ==
    /\ Answered("dates")
    /\ \E i \in 1..Len(resp.body) :
          /\ resp.body[i].composerCount = 2
          /\ \E a, b \in UpdatedOn(resp.body[i].date) : a[1] # b[1]
          /\ resp.body[i].promptCount = 1
          /\ \E w \in Enumerated(DefaultDays) :
                /\ Len(StoredPrompts(w)) = 1
                /\ ~OnLocalDay(dirs[w].mtime, resp.body[i].date)

\* the prompts that contain the query without regard to case, in the order
\* of the enumeration over the default window, each with its workspace
RECURSIVE MatchesOf(_, _)
MatchesOf(workspaces, q) ==
    IF workspaces = <<>> THEN <<>>
    ELSE LET ws   == Head(workspaces)
             hits == SelectSeq(StoredPrompts(ws.id),
                               LAMBDA p : /\ p.kind = "obj"
                                          /\ p.text.type = "str"
                                          /\ includes(toLowerCase(p.text.s), toLowerCase(q)))
         IN  [i \in 1..Len(hits) |->
                 [workspace |-> ws.id, folder |-> ws.folder, prompt |-> hits[i]]]
             \o MatchesOf(Tail(workspaces), q)

Min(a, b) == IF a < b THEN a ELSE b

\* C7: a search whose q is absent, empty or all whitespace returns no prompt.
C7_BlankQueryReturnsNothing ==
    (req.route = "search" /\ resp.type = "json" /\ (~req.q.present \/ isBlank(req.q.s))) =>
        resp.body = <<>>

\* C8: a search with a non-empty q returns exactly the first
\* min(SearchLimit, N) of the N matching prompts in enumeration order, each
\* with the id and folder of its workspace.
C8_SearchReturnsMatches ==
    (req.route = "search" /\ req.q.present /\ req.q.s # <<>>) =>
        LET all == MatchesOf(listWorkspaces(DefaultDays).list, req.q.s)
        IN  /\ resp.status = 200
            /\ resp.body = SubSeq(all, 1, Min(SearchLimit, Len(all)))

\* the same on the stores whose enumeration completes and whose prompts all
\* have a text that is a string or absent
C8_OnReadablePrompts ==
    (/\ req.route = "search" /\ req.q.present /\ req.q.s # <<>>
     /\ ~listWorkspaces(DefaultDays).threw
     /\ \A w \in WsIds : \A i \in 1..Len(StoredPrompts(w)) :
           StoredPrompts(w)[i].kind = "obj" /\ StoredPrompts(w)[i].text.type # "other") =>
        LET all == MatchesOf(listWorkspaces(DefaultDays).list, req.q.s)
        IN  /\ resp.status = 200
            /\ resp.body = SubSeq(all, 1, Min(SearchLimit, Len(all)))

\* the rows of the requested conversation that decode and have text
RetainedRows == SelectSeq(selectRows(req.composerId), hasText)

Occurrences(seq, x) == Cardinality({i \in 1..Len(seq) : seq[i] = x})

\* C9: when every retained bubble of the conversation has a creation
\* timestamp, the bubbles are returned in non-decreasing order of creation
\* time and are the retained bubbles, each as often as it is stored.
C9_BubblesAscending ==
    (/\ Answered("bubbles")
     /\ globalDb.file = "ok"
     /\ \A i \in 1..Len(RetainedRows) : RetainedRows[i].value.createdAt.kind = "time") =>
        LET stored == [i \in 1..Len(RetainedRows) |-> toBubble(RetainedRows[i])]
        IN  /\ \A i \in 1..(Len(resp.body) - 1) :
                  resp.body[i].createdAt.ms <= resp.body[i + 1].createdAt.ms
            /\ Len(resp.body) = Len(stored)
            /\ \A i \in 1..Len(stored) :
                  Occurrences(resp.body, stored[i]) = Occurrences(stored, stored[i])

\* three timestamped bubbles stored latest first come back earliest first
C9_Witness ==
    /\ Answered("bubbles")
    /\ Len(resp.body) = 3
    /\ \A i \in 1..3 : RetainedRows[i].value.createdAt.kind = "time"
    /\ RetainedRows[1].value.createdAt.ms > RetainedRows[2].value.createdAt.ms
    /\ RetainedRows[2].value.createdAt.ms > RetainedRows[3].value.createdAt.ms
    /\ resp.body[1].createdAt.ms < resp.body[3].createdAt.ms

\* C10: the bubbles endpoint always answers 200 with a JSON array, and with
\* the empty array when the global database is missing, cannot be opened or
\* queried, or holds no row of the conversation.
C10_BubblesNeverFail ==
    req.route = "bubbles" =>
        /\ resp.status = 200
        /\ resp.type = "json"
        /\ (globalDb.file # "ok" \/ selectRows(req.composerId) = <<>>) =>
              resp.body = <<>>

\* the database holds bubbles of the conversation but cannot be opened
C10_Witness ==
    /\ req.route = "bubbles"
    /\ globalDb.file = "locked"
    /\ RetainedRows # <<>>
    /\ resp = Json(<<>>)

StartsWith(str, prefix) ==
    Len(str) >= Len(prefix) /\ SubSeq(str, 1, Len(prefix)) = prefix

\* bubbleId:<composerId>:
LiteralPrefix(composerId) == KeyPrefix \o composerId \o <<":">>

\* C11: every bubble the endpoint returns is the bubble of a stored row
\* whose key starts, character for character, with bubbleId:<composerId>:
\* for the requested id, and its bubbleId is the rest of that key.
C11_OnlyLiteralPrefix ==
    Answered("bubbles") =>
        \A i \in 1..Len(resp.body) :
            \E r \in 1..Len(globalDb.rows) :
                LET row    == globalDb.rows[r]
                    prefix == LiteralPrefix(req.composerId)
                IN  /\ StartsWith(row.key, prefix)
                    /\ resp.body[i].bubbleId = SubSeq(row.key, Len(prefix) + 1, Len(row.key))
                    /\ resp.body[i].text = row.value.text

\* nothing can be read from the workspace's database: it cannot be opened,
\* cannot be queried, or neither of its two values parses
Unreadable(w) ==
    /\ dirs[w].kind = "dir"
    /\ \/ dirs[w].db \in {"locked", "corrupt"}
       \/ /\ dirs[w].db = "ok"
          /\ dirs[w].prompts.json = "bad"
          /\ dirs[w].composerData.json = "bad"

\* the database file is there, not older than the cutoff, and holds a
\* prompt or a valid composer
Eligible(w, daysBack) ==
    /\ dirs[w].kind = "dir"
    /\ dirs[w].db = "ok"
    /\ dirs[w].mtime >= (now - daysBack * MsPerDay) * Sub
    /\ ~HasNothing(w)

\* C13: over a storage directory, for every window, listWorkspaces does not
\* fail, returns no unreadable workspace, and returns every other workspace
\* that is readable, recent and not empty, with its prompts and composers,
\* whatever unreadable workspace is scanned with it; the listing endpoint
\* answers 200.
C13_UnreadableLeftOut ==
    root = "dir" =>
        /\ \A daysBack \in Windows :
              LET got == listWorkspaces(daysBack)
              IN  /\ ~got.threw
                  /\ \A w \in WsIds : Unreadable(w) => w \notin Enumerated(daysBack)
                  /\ \A w \in WsIds :
                        (~Unreadable(w) /\ Eligible(w, daysBack)) =>
                            \E i \in 1..Len(got.list) :
                                /\ got.list[i].id = w
                                /\ got.list[i].prompts = StoredPrompts(w)
                                /\ SameComposers(got.list[i].composers, ValidStored(w))
        /\ req.route = "workspaces" => resp.status = 200 /\ resp.type = "json"

\* a locked database holding a prompt and a composer is left out of a
\* listing that returns the other workspace
C13_Witness ==
    /\ Answered("workspaces")
    /\ \E w \in WsIds :
          /\ dirs[w].db = "locked"
          /\ dirs[w].prompts.items # <<>>
          /\ Len(resp.body) = 1
          /\ resp.body[1].id # w
          /\ resp.body[1].promptCount + resp.body[1].composerCount > 0

\* C14: every request to an API route ends with a JSON response, whatever
\* is raised while it is served.
C14_AlwaysJsonResponse ==
    req.route \in {"workspaces", "workspace", "dates", "composers", "bubbles", "search"} =>
        resp.type = "json"

\* C15: no database handle is open once a request has been served.
C15_NoOpenHandle == handles = 0

\* C17: for every window, the workspaces listWorkspaces returns are in
\* non-increasing order of modifiedTimestamp, and so are the entries of the
\* listing endpoint's answer.
C17_MostRecentFirst ==
    /\ \A daysBack \in Windows :
          LET list == listWorkspaces(daysBack).list
          IN  \A i \in 1..(Len(list) - 1) :
                  list[i].modifiedTimestamp >= list[i + 1].modifiedTimestamp
    /\ Answered("workspaces") =>
          \A i \in 1..(Len(resp.body) - 1) :
              /\ resp.body[i].modifiedTimestamp >= resp.body[i + 1].modifiedTimestamp
              /\ resp.body[i].modifiedTimestamp = dirs[resp.body[i].id].mtime
              /\ resp.body[i + 1].modifiedTimestamp = dirs[resp.body[i + 1].id].mtime

\* the directory listed first holds the older database and comes second
C17_Witness ==
    /\ Answered("workspaces")
    /\ Len(resp.body) = 2
    /\ dirs[DirOrder[1]].mtime < dirs[DirOrder[2]].mtime
    /\ resp.body[1].id = DirOrder[2]
    /\ resp.body[2].id = DirOrder[1]

\* C18: over a storage directory, listWorkspaces(daysBack) returns exactly
\* the workspaces that hold a database file not older than now minus
\* daysBack days with at least one prompt or one retained composer, each
\* once; /api/workspaces with days absent or not a number lists the
\* workspaces of the 30-day window.
C18_ListedIffEligible ==
    root = "dir" =>
        /\ \A daysBack \in Windows :
              /\ Enumerated(daysBack) = {w \in WsIds : Eligible(w, daysBack)}
              /\ Len(listWorkspaces(daysBack).list) = Cardinality(Enumerated(daysBack))
        /\ (Answered("workspaces") /\ req.days.kind \in {"absent", "text"}) =>
              /\ {resp.body[i].id : i \in 1..Len(resp.body)}
                     = {w \in WsIds : Eligible(w, 30)}
              /\ Len(resp.body) = Cardinality({w \in WsIds : Eligible(w, 30)})

\* without days, a workspace modified exactly 30 days ago is listed and one
\* modified half a millisecond earlier is not
C18_Witness ==
    /\ Answered("workspaces")
    /\ req.days.kind = "absent"
    /\ Len(resp.body) = 1
    /\ dirs[resp.body[1].id].mtime = DaysAgo(30)
    /\ \E w \in WsIds :
          /\ dirs[w].db = "ok" /\ ~HasNothing(w)
          /\ dirs[w].mtime = DaysAgo(30) - 1

\* the stored valid composers of the workspaces of the 30-day window that
\* the date filter lets through
ExpectedComposers(filterDate) ==
    {wj \in StoredValid :
        /\ wj[1] \in Enumerated(DefaultDays)
        /\ \/ filterDate.kind = "none"
           \/ /\ filterDate.kind = "day"
              /\ OnLocalDay(StoredComposers(wj[1])[wj[2]].lastUpdatedAt.v, filterDate.day)}

\* C19: /api/composers returns the composers of the workspaces of the
\* 30-day window, each once with the id and folder of its workspace, only
\* those last updated on local day D when a date D is given, in
\* non-increasing order of lastUpdatedAt.
C19_FlatComposers ==
    Answered("composers") =>
        LET expected == ExpectedComposers(req.date)
        IN  /\ Len(resp.body) = Cardinality(expected)
            /\ \A wj \in expected :
                  \E i \in 1..Len(resp.body) :
                      /\ resp.body[i].composerId = StoredComposers(wj[1])[wj[2]].composerId
                      /\ resp.body[i].lastUpdatedAt = StoredComposers(wj[1])[wj[2]].lastUpdatedAt.v
                      /\ resp.body[i].workspaceId = wj[1]
                      /\ resp.body[i].workspaceFolder = Some("/home/" \o wj[1])
            /\ \A i \in 1..(Len(resp.body) - 1) :
                  resp.body[i].lastUpdatedAt >= resp.body[i + 1].lastUpdatedAt

\* with a date, composers of two workspaces come back latest first while a
\* composer updated half a millisecond after 23:59:59.999 of that day is
\* among them and one updated on another day is not
C19_Witness ==
    /\ Answered("composers")
    /\ req.date.kind = "day"
    /\ Len(resp.body) >= 2
    /\ \E i, j \in 1..Len(resp.body) : resp.body[i].workspaceId # resp.body[j].workspaceId
    /\ resp.body[1].lastUpdatedAt > resp.body[Len(resp.body)].lastUpdatedAt
    /\ \E i \in 1..Len(resp.body) :
          resp.body[i].lastUpdatedAt = endOfDay(req.date.day) + 1
    /\ ExpectedComposers(NoDate) # ExpectedComposers(req.date)

\* C20: every returned bubble has non-empty text, and the bubbles returned
\* are those of all the conversation's rows that decode and have text: a
\* row that does not decode, or has no text, removes nothing else.
C20_OnlyBubblesWithText ==
    (Answered("bubbles") /\ globalDb.file = "ok") =>
        /\ \A i \in 1..Len(resp.body) : resp.body[i].text # <<>>
        /\ Len(resp.body) = Len(RetainedRows)
        /\ \A i \in 1..Len(RetainedRows) :
              Occurrences(resp.body, toBubble(RetainedRows[i]))
                  = Occurrences([k \in 1..Len(RetainedRows) |-> toBubble(RetainedRows[k])],
                                toBubble(RetainedRows[i]))

\* a row that does not decode and a row without text are stored between
\* two rows with text, and both of those come back
C20_Witness ==
    /\ Answered("bubbles")
    /\ globalDb.file = "ok"
    /\ Len(globalDb.rows) >= 3
    /\ hasText(globalDb.rows[1])
    /\ globalDb.rows[2].value.json = "bad"
    /\ hasText(globalDb.rows[3])
    /\ Len(selectRows(req.composerId)) = 3
    /\ Len(resp.body) = 2

\* the bubbles the server returns for a selected conversation
ReturnedFor(entry) == bubblesResponse(chars(entry.composer.composerId)).body

\* the dialog is open on a summary fetched for the conversations selected
SummaryFetched ==
    /\ showModal
    /\ runs = <<>>
    /\ Len(summaryData) = Len(selections)
    /\ \A i \in 1..Len(selections) :
          summaryData[i].composer = [composer      |-> selections[i].composer,
                                     workspaceName |-> selections[i].workspaceName]

\* from line p on, text holds the conversation of entry: its name, its mode
\* label, then the texts of its bubbles in the order returned
SectionAt(text, p, entry) ==
    LET bubbles == ReturnedFor(entry)
        n       == Len(bubbles)
    IN  /\ p + 2 * n + 1 <= Len(text)
        /\ text[p].line = "h3"
        /\ text[p].s = entry.composer.name
        /\ text[p + 1].line = "mode"
        /\ text[p + 1].s = getModeInfo(entry.composer.mode).label
        /\ \A k \in 1..n :
              /\ text[p + 2 * k].line = "role"
              /\ text[p + 2 * k + 1].line = "text"
              /\ text[p + 2 * k + 1].t = bubbles[k].text
        /\ text[p + 2 * n + 2].line \in {"rule", "nomessages"}

RECURSIVE ReturnedTotal(_)
ReturnedTotal(entries) ==
    IF entries = <<>> THEN 0
    ELSE Len(ReturnedFor(Head(entries))) + ReturnedTotal(Tail(entries))

\* C12: once the summary of the selected conversations is fetched, the
\* markdown under the 'all' filter holds, for every selected conversation,
\* one section with its name, its mode label and the texts of the bubbles
\* returned for it in the order returned, and no other conversation or
\* bubble text.
C12_SummaryRoundTrip ==
    SummaryFetched =>
        LET text == generateFilteredSummary(summaryData, "all")
        IN  /\ \A i \in 1..Len(selections) :
                  \E p \in 1..Len(text) : SectionAt(text, p, selections[i])
            /\ Cardinality({p \in 1..Len(text) : text[p].line = "h3"}) = Len(selections)
            /\ Cardinality({p \in 1..Len(text) : text[p].line = "text"})
                   = ReturnedTotal(selections)

\* two conversations of two workspaces are selected, one in agent mode, and
\* the first of them has several bubbles
C12_Witness ==
    /\ SummaryFetched
    /\ Len(selections) = 2
    /\ selections[1].workspaceName # selections[2].workspaceName
    /\ \E i \in 1..2 : selections[i].composer.mode = "agent"
    /\ Len(summaryData[1].bubbles) >= 2
    /\ summaryData[1].bubbles[1].text # summaryData[1].bubbles[2].text

\* C16: no step of the server or of the page changes the storage root, the
\* workspace directories and their databases, or the global database.
C16_StoreUnchanged == [][store' = store]_vars

\* the page has listed the composers read from two workspace databases and
\* fetched a summary of bubbles read from the global database
C16_Witness ==
    /\ Len(composerList) = 2
    /\ SummaryFetched
    /\ \E i \in 1..Len(summaryData) : summaryData[i].bubbles # <<>>
    /\ openedBy(DefaultDays) = WsIds

\* C21: of any two returned bubbles that both have a creation timestamp the
\* one created earlier comes first, whatever bubbles without a timestamp
\* are stored between them.
C21_TimestampedAscending ==
    (Answered("bubbles") /\ globalDb.file = "ok") =>
        \A i, j \in 1..Len(resp.body) :
            (/\ i < j
             /\ resp.body[i].createdAt.kind = "time"
             /\ resp.body[j].createdAt.kind = "time") =>
                resp.body[i].createdAt.ms <= resp.body[j].createdAt.ms

\* the composers of the requested workspace as the listing has them
ListedComposers ==
    LET found == SelectSeq(detailWorkspaces.list, LAMBDA ws : ws.id = req.id)
    IN  IF found = <<>> THEN <<>> ELSE found[1].composers

RECURSIVE Concatenation(_)
Concatenation(groups) ==
    IF groups = <<>> THEN <<>>
    ELSE Head(groups).items \o Concatenation(Tail(groups))

\* C22: composersByDate has one group per local calendar day on which a
\* composer of the workspace was last updated; the group of a day holds
\* exactly the composers of that day in input order, so every composer is
\* in exactly one group; and grouping the concatenation of the groups again
\* gives the same groups.
C22_GroupingPartition ==
    Answered("workspace") =>
        LET groups == resp.body.composersByDate
            all    == ListedComposers
        IN  /\ \A g, h \in 1..Len(groups) : groups[g].date = groups[h].date => g = h
            /\ \A g \in 1..Len(groups) :
                  /\ groups[g].items # <<>>
                  /\ groups[g].items =
                        SelectSeq(all, LAMBDA c : OnLocalDay(c.lastUpdatedAt, groups[g].date))
            /\ \A i \in 1..Len(all) :
                  \E g \in 1..Len(groups) : OnLocalDay(all[i].lastUpdatedAt, groups[g].date)
            /\ Len(Concatenation(groups)) = Len(all)
            /\ groupComposersByDate(Concatenation(groups)) = groups

\* two composers of one day are stored with a composer of another day
\* between them: the concatenation of the groups is not the input
C22_Witness ==
    /\ Answered("workspace")
    /\ Len(ListedComposers) = 3
    /\ Len(resp.body.composersByDate) = 2
    /\ Len(resp.body.composersByDate[1].items) = 2
    /\ Concatenation(resp.body.composersByDate) # ListedComposers

\* the group of day d in composersByDate, empty when there is none
GroupOf(groups, d) ==
    LET at == SelectSeq(groups, LAMBDA g : g.date = d)
    IN  IF at = <<>> THEN <<>> ELSE at[1].items

\* C29: for every date that /api/dates returns, composerCount is the number
\* of composers /api/composers returns for that date on the same store, and
\* every day for which /api/composers returns a composer is a date of
\* /api/dates.
C29_DatesAgreeWithComposers ==
    Answered("dates") =>
        /\ \A i \in 1..Len(resp.body) :
              LET forDate == composersResponse(Day(resp.body[i].date))
              IN  /\ forDate.status = 200
                  /\ resp.body[i].composerCount = Len(forDate.body)
        /\ \A d \in (Today - 3)..(Today + 1) :
              composersResponse(Day(d)).body # <<>> =>
                  \E i \in 1..Len(resp.body) : resp.body[i].date = d

\* two dates are returned, one of them with the composers of two workspaces,
\* one composer half a millisecond past 23:59:59.999
C29_Witness ==
    /\ Answered("dates")
    /\ Len(resp.body) = 2
    /\ \E i \in 1..2 :
          /\ resp.body[i].composerCount = 2
          /\ Len(resp.body[i].workspaceIds) = 2
          /\ \E k \in 1..2 :
                composersResponse(Day(resp.body[i].date)).body[k].lastUpdatedAt
                    = endOfDay(resp.body[i].date) + 1

\* C30: in a response of the detail endpoint for a date D, the filtered
\* composers are the group of D in composersByDate, or none when there is
\* no such group, and composersByDate covers all composers of the workspace.
C30_FilterEqualsGroup ==
    (Answered("workspace") /\ req.date.kind = "day") =>
        /\ resp.body.composers = GroupOf(resp.body.composersByDate, req.date.day)
        /\ Len(Concatenation(resp.body.composersByDate)) = Len(ListedComposers)

\* the local calendar day on which the instant ms (whole milliseconds) falls
OnlyDay(ms) ==
    CHOOSE d \in (ms \div MsPerDay - 1)..(ms \div MsPerDay + TzMs + 1) : OnLocalDay(ms * Sub, d)

\* the bubbles of a fetched conversation created on local calendar day d
CreatedOn(bubbles, d) ==
    SelectSeq(bubbles, LAMBDA b :
        b.createdAt.kind = "time" /\ OnLocalDay(b.createdAt.ms * Sub, d))

\* at line p of the text starts the section of a conversation: its name,
\* its mode label, then these bubbles' roles and texts in order (or the
\* note that there is none), then the rule
SectionOf(text, p, conv, bubbles) ==
    LET n == Len(bubbles)
        k == IF n = 0 THEN 1 ELSE 2 * n
    IN  /\ p + 2 + k <= Len(text)
        /\ text[p] = Line("h3", conv.composer.composer.name, 0, <<>>)
        /\ text[p + 1].line = "mode"
        /\ text[p + 1].s = getModeInfo(conv.composer.composer.mode).label
        /\ IF n = 0 THEN text[p + 2].line = "nomessages"
           ELSE \A i \in 1..n :
                   /\ text[p + 2 * i].line = "role"
                   /\ text[p + 2 * i].s = (IF bubbles[i].type = 1 THEN "User" ELSE "AI")
                   /\ text[p + 2 * i + 1] = Line("text", "", 0, bubbles[i].text)
        /\ text[p + 2 + k].line = "rule"

RECURSIVE TotalOn(_, _)
TotalOn(conversations, d) ==
    IF conversations = <<>> THEN 0
    ELSE Len(CreatedOn(Head(conversations).bubbles, d)) + TotalOn(Tail(conversations), d)

RECURSIVE TotalBubbles(_)
TotalBubbles(conversations) ==
    IF conversations = <<>> THEN 0
    ELSE Len(Head(conversations).bubbles) + TotalBubbles(Tail(conversations))

LinesOf(text, kind) == {p \in 1..Len(text) : text[p].line = kind}

\* the summary of the fetched conversations under a day filter lists the
\* conversations with a bubble created on day d, each with exactly those
\* bubbles, and counts the conversations it lists
FilteredTo(filter, d) ==
    LET text   == generateFilteredSummary(summaryData, filter)
        listed == {i \in 1..Len(summaryData) : CreatedOn(summaryData[i].bubbles, d) # <<>>}
    IN  /\ \A i \in listed :
              \E p \in 1..Len(text) :
                  SectionOf(text, p, summaryData[i], CreatedOn(summaryData[i].bubbles, d))
        /\ Cardinality(LinesOf(text, "h3")) = Cardinality(listed)
        /\ Cardinality(LinesOf(text, "text")) = TotalOn(summaryData, d)
        /\ LinesOf(text, "nomessages") = {}
        /\ \A p \in LinesOf(text, "total") : text[p].n = Cardinality(listed)
        /\ Cardinality(LinesOf(text, "total")) = 1

ListedIn(text) == LinesOf(text, "h3") \cup LinesOf(text, "item")

\* C26: a press of Copy to Clipboard with a non-empty selection writes a
\* text that lists exactly the selected conversations, as many as the
\* confirmation message reports.
C26_CopyListsSelection ==
    [][clipboard' # clipboard =>
          /\ clipboard'.alerted = Len(selections')
          /\ Cardinality(ListedIn(clipboard'.text)) = Len(selections')
          /\ {clipboard'.text[p].s : p \in ListedIn(clipboard'.text)}
                = {selections'[i].composer.name : i \in 1..Len(selections')}]_vars

\* C27: after Select All every composer of the displayed list is selected
\* and every conversation selected before is still selected.
C27_SelectAllSelectsAll ==
    (~showModal /\ composerList # <<>>) =>
        LET after == selectEach(selections, selections, composerList)
        IN  /\ \A i \in 1..Len(composerList) : has(after, composerList[i].composerId)
            /\ \A j \in 1..Len(selections) : has(after, selections[j].key)

\* the selection after two clicks in a row on the i-th composer of the list
ToggledTwice(i) ==
    LET c == composerList[i]
        n == workspaceNameOf(c)
    IN  toggleSelection(toggleSelection(selections, c, n), c, n)

OneEntryPerId ==
    \A i, j \in 1..Len(selections) : selections[i].key = selections[j].key => i = j

\* C28: two toggles of the same composer in a row leave the selection as
\* it was: the same entries with the same records and labels in the same
\* order; and the selection never holds two entries of one composer id.
C28_ToggleTwiceIdentity ==
    /\ \A i \in 1..Len(composerList) : ToggledTwice(i) = selections
    /\ OneEntryPerId

\* C28 as amended: two toggles of the same composer in a row leave an
\* unselected composer unselected and the selection exactly as it was; they
\* leave a selected composer selected, as the last entry, with the record
\* and label the second toggle was given, and the other entries as they
\* were in their order; and the selection never holds two entries of one
\* composer id.
C28_ToggleTwiceKeepsMembers ==
    /\ \A i \in 1..Len(composerList) :
          LET c      == composerList[i]
              others == SelectSeq(selections, LAMBDA e : e.key # c.composerId)
          IN  ToggledTwice(i) =
                 IF \E j \in 1..Len(selections) : selections[j].key = c.composerId
                 THEN others \o <<[key |-> c.composerId, composer |-> c,
                                   workspaceName |-> workspaceNameOf(c)]>>
                 ELSE selections
    /\ OneEntryPerId

\* two conversations are selected and the first of them is on screen: two
\* clicks on it move it behind the other
C28_Witness ==
    /\ Len(selections) = 2
    /\ \E i \in 1..Len(composerList) :
          /\ composerList[i].composerId = selections[1].key
          /\ ToggledTwice(i)[2].key = selections[1].key

\* C24: once every outstanding response of /api/dates and /api/composers
\* has been delivered, the composer list on screen is the response for the
\* selected date.
C24_ListOfSelectedDate ==
    fetches = <<>> => composerList = composersResponse(selectedDate).body

\* C25: once every outstanding bubbles response has been delivered,
\* useBubbles holds the bubbles of the conversation open in the detail
\* pane, and none when no conversation is open.
C25_BubblesOfViewedComposer ==
    bubbleFetches = <<>> =>
        viewedBubbles = IF viewingComposer = Null THEN <<>>
                        ELSE bubblesResponse(chars(viewingComposer[1].composerId)).body

====
